---- MODULE Spec2Model ----
(***************************************************************************)
(* The real-time chat core of the marketplace backend: the WebSocket       *)
(* consumer (api/consumers.py), the REST conversation and message views    *)
(* (api/views.py) and the tables they share (api/models.py).               *)
(*                                                                         *)
(* A channel layer is taken to be configured (get_channel_layer() is not   *)
(* None): groups are sets of channels, group_send appends the event to     *)
(* the queue of every member channel, and a consumer handles its queue in  *)
(* FIFO order, one event at a time.                                        *)
(*                                                                         *)
(* Time: timezone.now() and auto_now_add read the clock `now`, which Tick   *)
(* advances and which never runs backward.  A handler is one step and all  *)
(* its readings of the clock give the same value.                          *)
(*                                                                         *)
(* MessageViewSet.create is two steps, the database writes (create) and    *)
(* the group_send that follows them (broadcast): requests are served       *)
(* concurrently and nothing orders the broadcasts of two requests.         *)
(* MessageViewSet.update is two steps for the same reason: the row is read *)
(* (update) and later written back whole (perform_update).                 *)
(* ConversationViewSet.create is two steps as well: the lookup of          *)
(* get_or_create (conversation_create) and its insert                      *)
(* (conversation_insert).                                                  *)
(* mark_seen and typing of ConversationViewSet are modelled twice: as one  *)
(* step (mark_seen, typing), which is a request served alone, and as two   *)
(* steps (mark_seen_begin or typing_begin, then state_save), which is a    *)
(* request served while others run: the row is read and the clock is       *)
(* taken, and later state.save(update_fields=...) writes.  The consumer's  *)
(* update_or_create reads and writes inside one transaction and is one     *)
(* step.                                                                   *)
(*                                                                         *)
(* MessageViewSet.create is also modelled split at its insert              *)
(* (create_insert, create_finish), and the consumer's handler of a typing  *)
(* event split at the await between its write and its read                 *)
(* (ws_typing_set, ws_typing_send), for requests served while others run.  *)
(* The handshake of a connection is the middleware (JWTAuthMiddleware),    *)
(* which settles scope["user"] from the tokens, then the consumer's        *)
(* connect (inner); connect(c, user, id) alone is a handshake whose token  *)
(* resolved to user.                                                       *)
(***************************************************************************)
EXTENDS Integers, Sequences, FiniteSets, TLC

\* ------------------------------------------------------------- bounds
NumConns == 2
MaxMessages == 2
MaxTime == 2
MaxLog == 3
MaxEdits == 1
MaxConvs == 4
MaxOpening == 2
MaxSaving == 2
MaxCreating == 2
MaxEnsuring == 2

\* ---------------------------------------------------------- constants
Anonymous == 0
None == -1

Users == {1, 2, 3}
ConvIds == {1, 2}
\* ids a client can put in the URL or in a request body: 0 resolves to no
\* conversation
RouteIds == {0, 1, 2}
\* a well-formed positive id that no conversation has
MissingId == MaxConvs + 1
Texts == {"t1", "t2"}
Conns == 1..NumConns

\* the bodies a client submits to PUT/PATCH /messages/<pk>/: a text, and an
\* attempt to put the message back to sent and unread and to move it to
\* conversation 2 as a message of user 3
UpdateData == [text : Texts, status : {"sent"}, is_read : {FALSE},
               conversation : {2}, sender : {3}]

\* events the consumer has no branch for: a type it does not know, and no
\* type at all
UnknownEvents == {[type |-> "read_receipt"], [is_typing |-> TRUE]}

\* the JSON objects a client sends over the socket: a typing event may
\* come without its is_typing field
ClientEvents == {[type |-> "ping"], [type |-> "typing"]}
                \cup {[type |-> "typing", is_typing |-> b] : b \in BOOLEAN}
                \cup UnknownEvents

\* the bodies a client posts to /conversations/<pk>/typing/: with the field,
\* and without it
TypingData == {[is_typing |-> b] : b \in BOOLEAN} \cup {[format |-> "json"]}

STATUS_SENT == "sent"
STATUS_DELIVERED == "delivered"
STATUS_READ == "read"

VARIABLES conversations, messages, states, notifications, conns, groups,
          inflight, editing, opening, saving, scope, creating, rowtable, now, last

vars == <<conversations, messages, states, notifications, conns, groups,
          inflight, editing, opening, saving, scope, creating, rowtable, now, last>>

\* ------------------------------------------------------------ helpers
\* a ConversationParticipantState row that is not in the table; a row that
\* is created starts from these field defaults
NoRow == [exists |-> FALSE, is_typing |-> FALSE, last_typing_at |-> None,
          last_seen_at |-> None, last_read_at |-> None]

\* the ASGI scope of a connection before the middleware has run: what the
\* client put in the query string and in the Authorization header, and
\* scope["user"]
NoScope == [set |-> FALSE, query |-> <<>>, header |-> <<>>,
            user |-> Anonymous]

\* steps is the log of what connect has done so far, when connect is
\* followed step by step (phase "connecting").
\* handling holds the is_typing of a typing event whose handler has written
\* the row and has not yet read the snapshot (phase "handling")
NewConn == [phase |-> "new", user |-> Anonymous, conversation_id |-> None,
            joined |-> FALSE, close_code |-> None, inbox |-> <<>>,
            received |-> <<>>, handling |-> <<>>, steps |-> <<>>]

\* the record of the step just taken: the operation, its inputs and its
\* outcome: the HTTP status or close code, the count or the boolean of the
\* response body (for disconnect: whether the user was typing before it;
\* for a create: whether the notification write failed; for state_save:
\* whether the row had changed since the request read it), and whether the
\* step repeats the request of the step before it
Op(op, user, conv, msg, conn, code, count, flag, repeat) ==
    [op |-> op, user |-> user, conv |-> conv, msg |-> msg, conn |-> conn,
     code |-> code, count |-> count, flag |-> flag, repeat |-> repeat]

\* a refused request: the operation and the status of the response
Refused(op, code) ==
    Op(op, Anonymous, None, None, None, code, None, FALSE, FALSE)

\* bool(content.get("is_typing", True)) of the consumer and
\* bool(request.data.get("is_typing", True)) of the view: an absent field
\* reads as True; the values drawn here are JSON booleans, which bool()
\* returns as they are
get_is_typing(content) ==
    IF "is_typing" \in DOMAIN content THEN content.is_typing ELSE TRUE

event_type_wrong(content) == "typing"

\* content.get("type"): the string "None" stands for Python's None
event_type(content) ==
    IF "type" \in DOMAIN content THEN content.type ELSE "None"

\* ---------------------------------------------- conversation directory
_user_in_conversation_wrong(user_id, conversation_id) ==
    conversation_id \in DOMAIN conversations

_user_in_conversation(user_id, conversation_id) ==
    /\ conversation_id \in DOMAIN conversations
    /\ \/ conversations[conversation_id].buyer = user_id
       \/ conversations[conversation_id].seller_user = user_id

\* ------------------------------------------------------ channel layer
LogFull(c) == Len(conns[c].inbox) + Len(conns[c].received) >= MaxLog

group_discard_wrong(gs, group, channel) == gs

\* channel_layer.group_discard
group_discard(gs, group, channel) ==
    [gs EXCEPT ![group] = @ \ {channel}]

group_send_wrong(cs, members, event) ==
    [c \in Conns |-> [cs[c] EXCEPT !.inbox = Append(@, event)]]

group_send(cs, members, event) ==
    [c \in Conns |->
        IF c \in members THEN [cs[c] EXCEPT !.inbox = Append(@, event)]
        ELSE cs[c]]

\* ------------------------------------------------- participant state
mark_seen_row(row, t) ==
    [row EXCEPT !.exists = TRUE, !.last_seen_at = t, !.last_read_at = t,
                !.is_typing = FALSE]

set_typing_row_wrong(row, is_typing, t) ==
    [row EXCEPT !.exists = TRUE, !.is_typing = is_typing,
                !.last_typing_at = t, !.last_seen_at = t]

set_typing_row(row, is_typing, t) ==
    [row EXCEPT !.exists = TRUE, !.is_typing = is_typing,
                !.last_typing_at = t]

\* ChatConsumer._set_typing: nothing when the conversation does not resolve
_set_typing(st, user_id, conversation_id, is_typing, t) ==
    IF conversation_id \in DOMAIN conversations /\ user_id \in Users
    THEN [st EXCEPT ![<<conversation_id, user_id>>] =
             set_typing_row(@, is_typing, t)]
    ELSE st

\* ChatConsumer.disconnect, its second half: typing forced to false for an
\* authenticated user whose connect got as far as setting conversation_id
close_hook_wrong(st, user, conversation_id, t) == st

close_hook(st, user, conversation_id, t) ==
    IF user # Anonymous /\ conversation_id # None
    THEN _set_typing(st, user, conversation_id, FALSE, t)
    ELSE st

\* ChatConsumer._mark_seen: the participant state only
_mark_seen(st, user_id, conversation_id, t) ==
    IF conversation_id \in DOMAIN conversations /\ user_id \in Users
    THEN [st EXCEPT ![<<conversation_id, user_id>>] = mark_seen_row(@, t)]
    ELSE st

_get_participant_state_wrong(st, user_id, conversation_id) ==
    LET row == st[<<conversation_id, user_id>>] IN
    [conversation |-> conversation_id, user_id |-> user_id,
     is_typing |-> FALSE, last_typing_at |-> row.last_typing_at,
     last_seen_at |-> row.last_seen_at, last_read_at |-> row.last_read_at]

\* ChatConsumer._get_participant_state: the snapshot a typing event carries
_get_participant_state(st, user_id, conversation_id) ==
    LET row == st[<<conversation_id, user_id>>] IN
    [conversation |-> conversation_id, user_id |-> user_id,
     is_typing |-> row.is_typing, last_typing_at |-> row.last_typing_at,
     last_seen_at |-> row.last_seen_at, last_read_at |-> row.last_read_at]

\* ------------------------------------------------------ message ledger
is_participant_wrong(conversation, user) == TRUE

\* the participant test of the views
is_participant(conversation, user) ==
    conversation.buyer = user \/ conversation.seller_user = user

\* ConversationViewSet.get_queryset: what get_object() can resolve
ConversationQueryset(user) ==
    {c \in DOMAIN conversations : is_participant(conversations[c], user)}

\* MessageViewSet.get_queryset
MessageQueryset(user) ==
    {m \in DOMAIN messages :
        is_participant(conversations[messages[m].conversation], user)}

new_message(conversation_id, user, text, t) ==
    [conversation |-> conversation_id, sender |-> user, text |-> text,
     status |-> STATUS_SENT, is_read |-> FALSE, created_at |-> t]

\* MessageSerializer(msg).data
MessageSerializer(id, msg) ==
    [id |-> id, conversation |-> msg.conversation, sender |-> msg.sender,
     text |-> msg.text, status |-> msg.status, is_read |-> msg.is_read,
     created_at |-> msg.created_at]

notification_target_wrong(conversation, user) == conversation.buyer

\* MessageViewSet.create: the participant who did not send
notification_target(conversation, user) ==
    IF user = conversation.buyer THEN conversation.seller_user
    ELSE conversation.buyer

new_notification(target_user, conversation_id, message_id) ==
    [user |-> target_user, notif_type |-> "chat_message",
     conversation_id |-> conversation_id, message_id |-> message_id]

unread_from_others_wrong(msgs, conversation_id, user) ==
    {m \in DOMAIN msgs : /\ msgs[m].conversation = conversation_id
                         /\ ~msgs[m].is_read}

\* the rows mark_seen's bulk update selects
unread_from_others(msgs, conversation_id, user) ==
    {m \in DOMAIN msgs : /\ msgs[m].conversation = conversation_id
                         /\ ~msgs[m].is_read
                         /\ msgs[m].sender # user}

is_own_message_wrong(msg, user) == FALSE

\* MessageViewSet.mark_read: the sender's own message is left alone
is_own_message(msg, user) == msg.sender = user

apply_update_wrong(msg, data) ==
    [msg EXCEPT !.text = data.text, !.status = data.status]

read_only_fields_wrong == {"id", "status", "is_read", "created_at"}

\* MessageSerializer.Meta.read_only_fields, of the fields a message has here
read_only_fields == {"id", "conversation", "sender", "status", "is_read",
                     "created_at"}

\* MessageSerializer on update: the submitted fields that are not
\* read-only are set on the instance, which leaves text
apply_update(msg, data) ==
    [f \in DOMAIN msg |->
        IF f \in DOMAIN data /\ f \notin read_only_fields
        THEN data[f] ELSE msg[f]]

read_message_wrong(msg) == [msg EXCEPT !.status = STATUS_READ]

\* the fields mark_read and mark_seen write to a message
read_message(msg) == [msg EXCEPT !.is_read = TRUE, !.status = STATUS_READ]

seen_row_wrong(row, t) == [row EXCEPT !.exists = TRUE]

\* the participant state written by the views: seen and read bumped, and
\* typing cleared by mark_seen and create but not by mark_read
seen_row(row, t) ==
    [row EXCEPT !.exists = TRUE, !.last_seen_at = t, !.last_read_at = t,
                !.is_typing = FALSE]

read_row_wrong(row, t) == [row EXCEPT !.exists = TRUE]

read_row(row, t) ==
    [row EXCEPT !.exists = TRUE, !.last_seen_at = t, !.last_read_at = t]

save_wrong(row, instance, update_fields) == instance

\* state.save(update_fields=...): the named columns of the row are written
\* from the instance, the others keep what the row has
save(row, instance, update_fields) ==
    [f \in DOMAIN row |->
        IF f \in update_fields THEN instance[f] ELSE row[f]]

\* the payload ConversationViewSet.typing broadcasts
typing_payload(conversation_id, user, row) ==
    [conversation |-> conversation_id, user |-> [id |-> user],
     is_typing |-> row.is_typing, last_typing_at |-> row.last_typing_at,
     last_seen_at |-> row.last_seen_at, last_read_at |-> row.last_read_at]

\* ----------------------------------------------- conversation table
\* SellerProfile rows, id to owning user; Product rows, id to seller
SellerProfiles == (1 :> 2)

Products == (1 :> 1)

is_own_seller_wrong(seller_id, user) == FALSE

\* seller.user_id == user.id of ConversationViewSet.create
is_own_seller(seller_id, user) == SellerProfiles[seller_id] = user

\* seller_user is seller.user, kept in the row for the participant tests
new_conversation(buyer, seller, product, t) ==
    [buyer |-> buyer, seller |-> seller,
     seller_user |-> SellerProfiles[seller], product |-> product,
     last_message_at |-> t]

\* the lookup of get_or_create(buyer=, seller=, product=)
same_triple(conversation, buyer, seller, product) ==
    /\ conversation.buyer = buyer
    /\ conversation.seller = seller
    /\ conversation.product = product

\* unique_together = [buyer, seller, product] as the database enforces
\* it: rows whose product is NULL never conflict
violates_unique(buyer, seller, product) ==
    /\ product # None
    /\ \E c \in DOMAIN conversations :
          same_triple(conversations[c], buyer, seller, product)

\* ConversationParticipantState.objects.get_or_create for both participants
ensure_states(st, conversation_id, buyer, seller_user) ==
    [k \in DOMAIN st \cup ({conversation_id} \X Users) |->
        IF k[1] = conversation_id /\ k[2] \in {buyer, seller_user}
        THEN [(IF k \in DOMAIN st THEN st[k] ELSE NoRow)
                 EXCEPT !.exists = TRUE]
        ELSE IF k \in DOMAIN st THEN st[k] ELSE NoRow]

\* ----------------------------------------------------------- initial
\* two conversations made by ConversationViewSet.create, which also makes
\* the participant state of the buyer and of the seller's user
Init ==
    /\ conversations = [c \in ConvIds |->
          IF c = 1
          THEN new_conversation(1, 1, 1, 0)
          ELSE new_conversation(3, 1, None, 0)]
    /\ messages = <<>>
    /\ states = [k \in ConvIds \X Users |->
          IF is_participant(conversations[k[1]], k[2])
          THEN [NoRow EXCEPT !.exists = TRUE] ELSE NoRow]
    /\ notifications = <<>>
    /\ conns = [c \in Conns |-> NewConn]
    /\ groups = [g \in ConvIds |-> {}]
    /\ inflight = {}
    /\ editing = {}
    /\ opening = {}
    /\ saving = {}
    /\ scope = [c \in Conns |-> NoScope]
    /\ creating = {}
    /\ rowtable = [count |-> [k \in (1..MaxConvs) \X Users |->
                                 IF /\ k[1] \in ConvIds
                                    /\ is_participant(conversations[k[1]],
                                                      k[2])
                                 THEN 1 ELSE 0],
                   ensuring |-> {}]
    /\ now = 0
    /\ last = Op("init", Anonymous, None, None, None, None, None, FALSE, FALSE)

\* time passes
Tick ==
    /\ now < MaxTime
    /\ now' = now + 1
    /\ UNCHANGED <<conversations, messages, states, notifications, conns,
                   groups, inflight, editing, opening, saving, scope, creating, rowtable, last>>

\* ------------------------------------------------ token resolution
\* the token values of the query string, as the client wrote them: none,
\* blank ones, tokens of users 1 and 2 (one with spaces around it), and one
\* that is not a JWT
QueryValues == {"", " ", "tok1", " tok1 ", "tok2", "garbage"}

Queries == {<<>>} \cup {<<v>> : v \in QueryValues}

\* the Authorization header: none, or a scheme and what follows it
Headers == {<<>>} \cup
           {<<[scheme |-> sch, credentials |-> t]>> :
               sch \in {"Bearer", "bearer", "Basic"},
               t \in {"tok2", "expired", "ghost"}}

\* str.strip() and str.lower() on the strings above
strip(raw) ==
    CASE raw = " " -> ""
      [] raw = " tok1 " -> "tok1"
      [] OTHER -> raw

lower(str) ==
    CASE str = "Bearer" -> "bearer"
      [] str = "Basic" -> "basic"
      [] OTHER -> str

\* parse_qs drops the parameters whose value is blank
nonblank(v) == v # ""

parse_qs(query) == SelectSeq(query, nonblank)

read_token_wrong(query, header) ==
    IF header # <<>> /\ lower(header[1].scheme) = "bearer"
    THEN strip(header[1].credentials)
    ELSE IF parse_qs(query) # <<>> THEN strip(parse_qs(query)[1]) ELSE ""

\* JWTAuthMiddleware.__call__, step 1: raw_token, "" when there is none
read_token(query, header) ==
    LET qs == parse_qs(query)
        raw_token == IF qs # <<>> THEN strip(qs[1]) ELSE ""
    IN IF raw_token # "" THEN raw_token
       ELSE IF header # <<>> /\ lower(header[1].scheme) = "bearer"
       THEN strip(header[1].credentials)
       ELSE ""

\* the user id a token is signed for; 9 is the id of no user
token_user_id(raw_token) ==
    CASE raw_token = "tok1" -> 1
      [] raw_token = "tok2" -> 2
      [] raw_token = "ghost" -> 9
      [] OTHER -> None

authenticate_wrong(raw_token) ==
    IF raw_token \in {"tok1", "tok2", "ghost"}
    THEN token_user_id(raw_token)
    ELSE Anonymous

\* JWTAuthentication.get_validated_token then get_user: the user, or an
\* exception (InvalidToken for what is not a JWT or has expired,
\* AuthenticationFailed for a subject that is no user), which leaves
\* scope["user"] anonymous
authenticate(raw_token) ==
    IF raw_token \in {"tok1", "tok2", "ghost"}
       /\ token_user_id(raw_token) \in Users
    THEN token_user_id(raw_token)
    ELSE Anonymous

\* JWTAuthMiddleware.__call__ up to the call of the inner application:
\* scope["user"] is set.  Connections are numbered in the order they come.
JWTAuthMiddleware(c, query, header) ==
    /\ conns[c].phase = "new"
    /\ ~scope[c].set
    /\ \A d \in Conns : d < c => scope[d].set
    /\ LET raw_token == read_token(query, header)
           user == IF raw_token # "" THEN authenticate(raw_token)
                   ELSE Anonymous
       IN /\ scope' = [scope EXCEPT ![c] =
                [set |-> TRUE, query |-> query, header |-> header,
                 user |-> user]]
          /\ last' = Op("auth", user, None, None, c, None, None, FALSE, FALSE)
    /\ UNCHANGED <<conversations, messages, states, notifications, conns,
                   groups, inflight, editing, opening, saving, creating, rowtable, now>>

\* ------------------------------------------------ connection manager
\* ChatConsumer.connect, with scope["user"] = user and the id of the URL.
\* Connections are numbered in the order they are opened.
connect(c, user, conversation_id_raw) ==
    /\ conns[c].phase = "new"
    /\ \A d \in Conns : d < c => conns[d].phase # "new"
    /\ IF user = Anonymous
       THEN /\ conns' = [conns EXCEPT ![c].phase = "rejected",
                                      ![c].close_code = 4401]
            /\ last' = Op("connect", user, conversation_id_raw, None, c, 4401,
                          None, FALSE, FALSE)
            /\ UNCHANGED <<groups, states>>
       ELSE IF ~_user_in_conversation(user, conversation_id_raw)
       THEN /\ conns' = [conns EXCEPT ![c].phase = "rejected",
                                      ![c].user = user,
                                      ![c].conversation_id = conversation_id_raw,
                                      ![c].close_code = 4403]
            /\ last' = Op("connect", user, conversation_id_raw, None, c, 4403,
                          None, FALSE, FALSE)
            /\ UNCHANGED <<groups, states>>
       ELSE /\ groups' = [groups EXCEPT ![conversation_id_raw] = @ \cup {c}]
            /\ states' = _mark_seen(states, user, conversation_id_raw, now)
            /\ conns' = [conns EXCEPT
                  ![c].phase = "open",
                  ![c].user = user,
                  ![c].conversation_id = conversation_id_raw,
                  ![c].joined = TRUE,
                  ![c].received = Append(@,
                      [type |-> "connection",
                       conversation_id |-> conversation_id_raw,
                       user_id |-> user])]
            /\ last' = Op("connect", user, conversation_id_raw, None, c, None,
                          None, FALSE, FALSE)
    /\ UNCHANGED <<conversations, messages, notifications, inflight, editing, opening, saving, scope, creating, rowtable, now>>

connect_order_wrong == <<"group_add", "accept", "send_json", "_mark_seen">>

\* ChatConsumer.connect after the participant test: what it awaits, in the
\* order of the code
connect_order == <<"group_add", "accept", "_mark_seen", "send_json">>

\* ChatConsumer.connect followed step by step, up to the participant test:
\* the rejections, or the handler goes on
connect_begin(c, user, conversation_id_raw) ==
    /\ conns[c].phase = "new"
    /\ \A d \in Conns : d < c => conns[d].phase # "new"
    /\ conns' = [conns EXCEPT
          ![c].phase = IF user # Anonymous
                          /\ _user_in_conversation(user, conversation_id_raw)
                       THEN "connecting" ELSE "rejected",
          ![c].user = user,
          ![c].conversation_id =
              IF user = Anonymous THEN None ELSE conversation_id_raw,
          ![c].close_code =
              IF user = Anonymous THEN 4401
              ELSE IF ~_user_in_conversation(user, conversation_id_raw)
              THEN 4403 ELSE None]
    /\ last' = Op("connect_begin", user, conversation_id_raw, None, c,
                  conns'[c].close_code, None, FALSE, FALSE)
    /\ UNCHANGED <<conversations, messages, states, notifications, groups,
                   inflight, editing, opening, saving, scope, creating, rowtable, now>>

\* the next await of that handler; after the last one the handler is over
\* and the consumer takes the events of its channel
connect_step(c) ==
    /\ conns[c].phase = "connecting"
    /\ LET step == connect_order[Len(conns[c].steps) + 1]
           user == conns[c].user
           conversation_id == conns[c].conversation_id
           over == Len(conns[c].steps) + 1 = Len(connect_order)
           cs == [conns EXCEPT
                    ![c].steps = Append(@, step),
                    ![c].phase = IF over THEN "open" ELSE "connecting"]
       IN /\ groups' = IF step = "group_add"
                       THEN [groups EXCEPT ![conversation_id] = @ \cup {c}]
                       ELSE groups
          /\ states' = IF step = "_mark_seen"
                       THEN _mark_seen(states, user, conversation_id, now)
                       ELSE states
          /\ conns' = IF step = "group_add"
                      THEN [cs EXCEPT ![c].joined = TRUE]
                      ELSE IF step = "send_json"
                      THEN [cs EXCEPT ![c].received = Append(@,
                              [type |-> "connection",
                               conversation_id |-> conversation_id,
                               user_id |-> user])]
                      ELSE cs
          /\ last' = Op(step, user, conversation_id, None, c, None, None,
                        FALSE, FALSE)
    /\ UNCHANGED <<conversations, messages, notifications, inflight, editing,
                   opening, saving, scope, creating, rowtable, now>>

\* the inner application of the middleware: the router hands the scope to
\* ChatConsumer.connect
inner(c, conversation_id_raw) ==
    /\ scope[c].set
    /\ connect(c, scope[c].user, conversation_id_raw)

\* ChatConsumer.disconnect, run once when the socket goes away, also after
\* connect closed it.  The consumer stops: its channel is not read again.
disconnect(c) ==
    /\ conns[c].phase \in {"open", "rejected"}
    /\ LET user == conns[c].user
           conversation_id == conns[c].conversation_id
       IN /\ groups' = IF conns[c].joined
                       THEN group_discard(groups, conversation_id, c)
                       ELSE groups
          /\ states' = close_hook(states, user, conversation_id, now)
          /\ conns' = [conns EXCEPT ![c].phase = "closed", ![c].inbox = <<>>]
          /\ last' = Op("disconnect", user, conversation_id, None, c, None,
                        None,
                        /\ user # Anonymous
                        /\ conversation_id \in DOMAIN conversations
                        /\ states[<<conversation_id, user>>].is_typing,
                        FALSE)
    /\ UNCHANGED <<conversations, messages, notifications, inflight, editing, opening, saving, scope, creating, rowtable, now>>

\* ChatConsumer.receive_json: one inbound client event
receive_json(c, content) ==
    /\ conns[c].phase = "open"
    /\ conns[c].user # Anonymous
    /\ LET user == conns[c].user
           conversation_id == conns[c].conversation_id
       IN IF event_type(content) = "ping"
          THEN /\ ~LogFull(c)
               /\ conns' = [conns EXCEPT
                     ![c].received = Append(@, [type |-> "pong"])]
               /\ last' = Op("ping", user, conversation_id, None, c, None,
                             None, FALSE, FALSE)
               /\ UNCHANGED states
          ELSE IF event_type(content) = "typing"
          THEN LET is_typing == get_is_typing(content)
                   st == _set_typing(states, user, conversation_id,
                                     is_typing, now)
                   state == _get_participant_state(st, user, conversation_id)
               IN /\ \A m \in groups[conversation_id] : ~LogFull(m)
                  /\ states' = st
                  /\ conns' = group_send(conns, groups[conversation_id],
                        [type |-> "conversation.typing", state |-> state])
                  /\ last' = Op("ws_typing", user, conversation_id, None, c,
                                None, None, is_typing, FALSE)
          ELSE /\ last' = Op("ws_other", user, conversation_id, None, c, None,
                             None, FALSE, FALSE)
               /\ UNCHANGED <<states, conns>>
    /\ UNCHANGED <<conversations, messages, notifications, groups, inflight, editing, opening, saving, scope, creating, rowtable,
                   now>>

\* ChatConsumer.receive_json for a typing event, served while other
\* requests run, up to the end of `await self._set_typing(...)`: the row is
\* written.  The consumer handles nothing else until the handler is over.
ws_typing_set(c, content) ==
    /\ conns[c].phase = "open"
    /\ conns[c].user # Anonymous
    /\ event_type(content) = "typing"
    /\ LET user == conns[c].user
           conversation_id == conns[c].conversation_id
           is_typing == get_is_typing(content)
       IN /\ states' = _set_typing(states, user, conversation_id, is_typing,
                                   now)
          /\ conns' = [conns EXCEPT ![c].phase = "handling",
                                    ![c].handling = <<is_typing>>]
          /\ last' = Op("ws_typing_set", user, conversation_id, None, c,
                        None, None, is_typing, FALSE)
    /\ UNCHANGED <<conversations, messages, notifications, groups, inflight,
                   editing, opening, saving, scope, creating, rowtable, now>>

\* the rest of that handler: `await self._get_participant_state(...)` reads
\* the row as it is now, and the snapshot goes to the group
ws_typing_send(c) ==
    /\ conns[c].phase = "handling"
    /\ LET user == conns[c].user
           conversation_id == conns[c].conversation_id
           state == _get_participant_state(states, user, conversation_id)
       IN /\ \A m \in groups[conversation_id] : ~LogFull(m)
          /\ conns' = group_send(
                [conns EXCEPT ![c].phase = "open", ![c].handling = <<>>],
                groups[conversation_id],
                [type |-> "conversation.typing", state |-> state])
          /\ last' = Op("ws_typing_send", user, conversation_id, None, c,
                        None, None, conns[c].handling[1], FALSE)
    /\ UNCHANGED <<conversations, messages, states, notifications, groups,
                   inflight, editing, opening, saving, scope, creating, rowtable, now>>

\* ChatConsumer.chat_message: the envelope sent to the client
chat_message(event) ==
    [type |-> "message.created", message |-> event.message]

\* ChatConsumer.conversation_typing: the envelope sent to the client
conversation_typing(event) ==
    [type |-> "conversation.typing", state |-> event.state]

\* the consumer handles the next event of its channel
dispatch(c) ==
    /\ conns[c].phase = "open"
    /\ conns[c].inbox # <<>>
    /\ LET event == Head(conns[c].inbox)
           frame == IF event.type = "chat.message" THEN chat_message(event)
                    ELSE conversation_typing(event)
       IN /\ conns' = [conns EXCEPT ![c].inbox = Tail(@),
                                    ![c].received = Append(@, frame)]
          /\ last' = Op("dispatch", conns[c].user, conns[c].conversation_id,
                        None, c, None, None, FALSE, FALSE)
    /\ UNCHANGED <<conversations, messages, states, notifications, groups,
                   inflight, editing, opening, saving, scope, creating, rowtable, now>>

\* ------------------------------------------------------ message views
\* MessageViewSet.create up to the notification: the database writes
create(user, conversation_id, text) ==
    IF conversation_id \notin DOMAIN conversations
    THEN /\ last' = Refused("create", 400)
         /\ UNCHANGED <<conversations, messages, states, notifications,
                        conns, groups, inflight, editing, opening, saving, scope, creating, rowtable, now>>
    ELSE IF ~is_participant(conversations[conversation_id], user)
    THEN /\ last' = Refused("create", 403)
         /\ UNCHANGED <<conversations, messages, states, notifications,
                        conns, groups, inflight, editing, opening, saving, scope, creating, rowtable, now>>
    ELSE LET msg == new_message(conversation_id, user, text, now)
             id == Len(messages) + 1
         IN /\ Len(messages) < MaxMessages
            /\ messages' = Append(messages, msg)
            /\ conversations' = [conversations EXCEPT
                  ![conversation_id].last_message_at = msg.created_at]
            /\ states' = [states EXCEPT
                  ![<<conversation_id, user>>] = seen_row(@, now)]
            /\ notifications' = Append(notifications,
                  new_notification(
                      notification_target(conversations[conversation_id], user),
                      conversation_id, id))
            /\ inflight' = inflight \cup {MessageSerializer(id, msg)}
            /\ last' = Op("create", user, conversation_id, id, None, None,
                          None, FALSE, FALSE)
            /\ UNCHANGED <<conns, groups, editing, opening, saving, scope, creating, rowtable, now>>

\* MessageViewSet.create when Notification.objects.create raises: the writes
\* before it are committed (no transaction wraps the request), the
\* exception leaves the view, and the request ends with a 500
create_notification_error(user, conversation_id, text) ==
    /\ conversation_id \in DOMAIN conversations
    /\ is_participant(conversations[conversation_id], user)
    /\ Len(messages) < MaxMessages
    /\ LET msg == new_message(conversation_id, user, text, now)
           id == Len(messages) + 1
       IN /\ messages' = Append(messages, msg)
          /\ conversations' = [conversations EXCEPT
                ![conversation_id].last_message_at = msg.created_at]
          /\ states' = [states EXCEPT
                ![<<conversation_id, user>>] = seen_row(@, now)]
          /\ last' = Op("create", user, conversation_id, id, None, 500, None,
                        TRUE, FALSE)
    /\ UNCHANGED <<notifications, conns, groups, inflight, editing, opening, saving, scope, creating, rowtable, now>>

\* MessageViewSet.create served while other creates run, up to
\* Message.objects.create: the message row is inserted with the time of
\* the insert
create_insert(user, conversation_id, text) ==
    IF conversation_id \notin DOMAIN conversations
    THEN /\ last' = Refused("create", 400)
         /\ UNCHANGED <<conversations, messages, states, notifications,
                        conns, groups, inflight, editing, opening, saving,
                        scope, creating, rowtable, now>>
    ELSE IF ~is_participant(conversations[conversation_id], user)
    THEN /\ last' = Refused("create", 403)
         /\ UNCHANGED <<conversations, messages, states, notifications,
                        conns, groups, inflight, editing, opening, saving,
                        scope, creating, rowtable, now>>
    ELSE LET msg == new_message(conversation_id, user, text, now)
             id == Len(messages) + 1
         IN /\ Len(messages) < MaxMessages
            /\ Cardinality(creating) < MaxCreating
            /\ messages' = Append(messages, msg)
            /\ creating' = creating \cup {[id |-> id, msg |-> msg]}
            /\ last' = Op("create_insert", user, conversation_id, id, None,
                          None, None, FALSE, FALSE)
            /\ UNCHANGED <<conversations, states, notifications, conns,
                           groups, inflight, editing, opening, saving, scope, rowtable,
                           now>>

\* the rest of that request up to the notification: last_message_at is set
\* to the created_at of the request's own message, the sender's state is
\* bumped with the clock read now, the notification is made
create_finish(r) ==
    /\ r \in creating
    /\ LET conversation_id == r.msg.conversation
           user == r.msg.sender
       IN /\ conversations' = [conversations EXCEPT
                ![conversation_id].last_message_at = r.msg.created_at]
          /\ states' = [states EXCEPT
                ![<<conversation_id, user>>] = seen_row(@, now)]
          /\ notifications' = Append(notifications,
                new_notification(
                    notification_target(conversations[conversation_id], user),
                    conversation_id, r.id))
          /\ inflight' = inflight \cup {MessageSerializer(r.id, r.msg)}
          /\ last' = Op("create", user, conversation_id, r.id, None, None,
                        None, FALSE, FALSE)
    /\ creating' = creating \ {r}
    /\ UNCHANGED <<messages, conns, groups, editing, opening, saving, scope, rowtable,
                   now>>

\* MessageViewSet.create from get_channel_layer() on: the payload made from
\* the message object of the request goes to the group, then the response
broadcast(payload) ==
    /\ payload \in inflight
    /\ \A m \in groups[payload.conversation] : ~LogFull(m)
    /\ conns' = group_send(conns, groups[payload.conversation],
                           [type |-> "chat.message", message |-> payload])
    /\ inflight' = inflight \ {payload}
    /\ last' = Op("broadcast", payload.sender, payload.conversation,
                  payload.id, None, 201, None, FALSE, FALSE)
    /\ UNCHANGED <<conversations, messages, states, notifications, groups,
                   editing, opening, saving, scope, creating, rowtable, now>>

\* MessageViewSet.create from get_channel_layer() on when no channel layer
\* is configured (get_channel_layer() is None): no send, then the response
respond_without_layer(payload) ==
    /\ payload \in inflight
    /\ inflight' = inflight \ {payload}
    /\ last' = Op("respond", payload.sender, payload.conversation,
                  payload.id, None, 201, None, FALSE, FALSE)
    /\ UNCHANGED <<conversations, messages, states, notifications, conns,
                   groups, editing, opening, saving, scope, creating, rowtable, now>>

\* MessageViewSet.mark_read
mark_read(user, pk) ==
    IF pk \notin MessageQueryset(user)
    THEN /\ last' = Refused("mark_read", 404)
         /\ UNCHANGED <<conversations, messages, states, notifications,
                        conns, groups, inflight, editing, opening, saving, scope, creating, rowtable, now>>
    ELSE LET msg == messages[pk]
             key == <<msg.conversation, user>>
         IN /\ IF is_own_message(msg, user)
               THEN /\ last' = Op("mark_read", user, msg.conversation, pk,
                                  None, 200, None, msg.is_read, FALSE)
                    /\ UNCHANGED <<messages, states>>
               ELSE /\ last' = Op("mark_read", user, msg.conversation, pk,
                                  None, 200, None, TRUE, FALSE)
                    /\ IF ~msg.is_read
                       THEN /\ messages' = [messages EXCEPT
                                              ![pk] = read_message(@)]
                            /\ states' = [states EXCEPT
                                              ![key] = read_row(@, now)]
                       ELSE UNCHANGED <<messages, states>>
            /\ UNCHANGED <<conversations, notifications, conns, groups,
                           inflight, editing, opening, saving, scope, creating, rowtable, now>>

\* MessageViewSet.update and partial_update (ModelViewSet), up to the valid
\* serializer: get_object() reads the row and the submitted fields are set on
\* that instance
update(user, pk, data) ==
    IF pk \notin MessageQueryset(user)
    THEN /\ last' = Refused("update", 404)
         /\ UNCHANGED <<conversations, messages, states, notifications,
                        conns, groups, inflight, editing, opening, saving, scope, creating, rowtable, now>>
    ELSE /\ Cardinality(editing) < MaxEdits
         /\ editing' = editing \cup
               {[pk |-> pk, user |-> user,
                 instance |-> apply_update(messages[pk], data)]}
         /\ last' = Op("update", user, messages[pk].conversation, pk, None,
                       None, None, FALSE, FALSE)
         /\ UNCHANGED <<conversations, messages, states, notifications,
                        conns, groups, inflight, opening, saving, scope, creating, rowtable, now>>

\* serializer.save() of that request: instance.save() writes every column
\* of the row from the instance, then the response
perform_update(e) ==
    /\ e \in editing
    /\ messages' = [messages EXCEPT ![e.pk] = e.instance]
    /\ editing' = editing \ {e}
    /\ last' = Op("perform_update", e.user, e.instance.conversation, e.pk,
                  None, 200, None, FALSE, FALSE)
    /\ UNCHANGED <<conversations, states, notifications, conns, groups,
                   inflight, opening, saving, scope, creating, rowtable, now>>

\* ------------------------------------------------- conversation views
\* ConversationViewSet.create up to the lookup of get_or_create: the
\* validations, then the existing conversation if get() finds one
conversation_create(user, seller_id, product_id) ==
    IF seller_id \notin DOMAIN SellerProfiles
    THEN /\ last' = Refused("conversation_create", 404)
         /\ UNCHANGED <<conversations, messages, states, notifications,
                        conns, groups, inflight, editing, opening, saving, scope, creating, rowtable, now>>
    ELSE IF is_own_seller(seller_id, user)
    THEN /\ last' = Refused("conversation_create", 400)
         /\ UNCHANGED <<conversations, messages, states, notifications,
                        conns, groups, inflight, editing, opening, saving, scope, creating, rowtable, now>>
    ELSE IF product_id # None /\ product_id \notin DOMAIN Products
    THEN /\ last' = Refused("conversation_create", 404)
         /\ UNCHANGED <<conversations, messages, states, notifications,
                        conns, groups, inflight, editing, opening, saving, scope, creating, rowtable, now>>
    ELSE IF product_id # None /\ Products[product_id] # seller_id
    THEN /\ last' = Refused("conversation_create", 400)
         /\ UNCHANGED <<conversations, messages, states, notifications,
                        conns, groups, inflight, editing, opening, saving, scope, creating, rowtable, now>>
    ELSE LET found == {c \in DOMAIN conversations :
                         same_triple(conversations[c], user, seller_id,
                                     product_id)}
         IN IF Cardinality(found) > 1
            THEN \* get() raises MultipleObjectsReturned
                 /\ last' = Op("conversation_create", user, None, None,
                               None, 500, Cardinality(found), FALSE, FALSE)
                 /\ UNCHANGED <<conversations, messages, states,
                                notifications, conns, groups, inflight,
                                editing, opening, saving, scope, creating, rowtable, now>>
            ELSE IF Cardinality(found) = 1
            THEN LET id == CHOOSE c \in found : TRUE IN
                 /\ states' = ensure_states(states, id, user,
                                            SellerProfiles[seller_id])
                 /\ last' = Op("conversation_create", user, id, None, None,
                               200, 1, FALSE, FALSE)
                 /\ UNCHANGED <<conversations, messages, notifications,
                                conns, groups, inflight, editing, opening, saving, scope, creating, rowtable,
                                now>>
            ELSE /\ Cardinality(opening) < MaxOpening
                 /\ opening' = opening \cup
                       {[n |-> CHOOSE n \in 1..MaxOpening :
                                  \A o \in opening : o.n # n,
                         buyer |-> user, seller |-> seller_id,
                         product |-> product_id]}
                 /\ last' = Op("conversation_create", user, None, None,
                               None, None, 0, FALSE, FALSE)
                 /\ UNCHANGED <<conversations, messages, states,
                                notifications, conns, groups, inflight,
                                editing, saving, scope, creating, rowtable, now>>

\* the insert of get_or_create and what follows it: a new conversation
\* with the participant states of both sides, 201; or, when the database
\* refuses the row as a duplicate, the existing conversation, 200
conversation_insert(o) ==
    /\ o \in opening
    /\ opening' = opening \ {o}
    /\ IF violates_unique(o.buyer, o.seller, o.product)
       THEN LET id == CHOOSE c \in DOMAIN conversations :
                         same_triple(conversations[c], o.buyer, o.seller,
                                     o.product)
            IN /\ states' = ensure_states(states, id, o.buyer,
                                          SellerProfiles[o.seller])
               /\ last' = Op("conversation_insert", o.buyer, id, None, None,
                             200, None, FALSE, FALSE)
               /\ UNCHANGED <<conversations, groups>>
       ELSE LET id == Cardinality(DOMAIN conversations) + 1 IN
            /\ id <= MaxConvs
            /\ conversations' =
                  [c \in DOMAIN conversations \cup {id} |->
                      IF c = id
                      THEN new_conversation(o.buyer, o.seller, o.product, now)
                      ELSE conversations[c]]
            /\ states' = ensure_states(states, id, o.buyer,
                                       SellerProfiles[o.seller])
            /\ groups' = [g \in DOMAIN groups \cup {id} |->
                             IF g \in DOMAIN groups THEN groups[g] ELSE {}]
            /\ last' = Op("conversation_insert", o.buyer, id, None, None,
                          201, None, TRUE, FALSE)
    /\ UNCHANGED <<messages, notifications, conns, inflight, editing, saving, scope, creating, rowtable,
                   now>>

\* -------------------------------------- participant state rows, counted
\* rowtable.count is the number of rows the table holds for a
\* (conversation, user); rowtable.ensuring holds the requests that are
\* inside get_or_create / update_or_create of ConversationParticipantState:
\* the users whose row is still to be ensured and the stage of the current
\* one ("get", then "insert" when get found no row).  The field writes
\* that follow a get_or_create are in the actions of the handlers above.
unique_conflict_wrong(count, key) == FALSE

\* unique_together = [conversation, user]: both columns are NOT NULL, so
\* the database refuses a second row of a key
unique_conflict(count, key) == count[key] >= 1

\* the requests other than conversation create whose handler makes the row
\* if it is absent, by the name of the handler
EnsureOps == {"connect", "disconnect", "typing", "mark_seen", "create",
              "mark_read"}

FreeEnsuring == {n \in 1..MaxEnsuring :
                    \A r \in rowtable.ensuring : r.n # n}

\* ConversationViewSet.create up to the first get_or_create of a
\* participant state: the validations and the conversation, found or made
conversation_ensure(user, seller_id, product_id) ==
    /\ seller_id \in DOMAIN SellerProfiles
    /\ SellerProfiles[seller_id] # user
    /\ product_id # None =>
          (product_id \in DOMAIN Products /\ Products[product_id] = seller_id)
    /\ FreeEnsuring # {}
    /\ LET found == {c \in DOMAIN conversations :
                        same_triple(conversations[c], user, seller_id,
                                    product_id)}
           created == found = {}
           id == IF created THEN Cardinality(DOMAIN conversations) + 1
                 ELSE CHOOSE c \in found : TRUE
       IN /\ Cardinality(found) <= 1
          /\ id <= MaxConvs
          /\ conversations' =
                [c \in DOMAIN conversations \cup {id} |->
                    IF c \in DOMAIN conversations THEN conversations[c]
                    ELSE new_conversation(user, seller_id, product_id, now)]
          /\ states' = [k \in DOMAIN states \cup ({id} \X Users) |->
                           IF k \in DOMAIN states THEN states[k] ELSE NoRow]
          /\ groups' = [g \in DOMAIN groups \cup {id} |->
                           IF g \in DOMAIN groups THEN groups[g] ELSE {}]
          /\ rowtable' = [rowtable EXCEPT !.ensuring = @ \cup
                {[n |-> CHOOSE n \in FreeEnsuring : TRUE,
                  op |-> "conversation_create", user |-> user, conv |-> id,
                  todo |-> <<user, SellerProfiles[seller_id]>>,
                  stage |-> "get",
                  code |-> IF created THEN 201 ELSE 200]}]
          /\ last' = Op("conversation_ensure", user, id, None, None, None,
                        Cardinality(found), created, FALSE)
    /\ UNCHANGED <<messages, notifications, conns, inflight, editing,
                   opening, saving, scope, creating, now>>

\* a handler that makes the row of (conversation, user) if it is absent
\* reaches its get_or_create or update_or_create: the views for a
\* participant, the consumer's close hook for any authenticated user
state_ensure(op, user, conversation_id) ==
    /\ op \in EnsureOps
    /\ conversation_id \in DOMAIN conversations
    /\ op = "disconnect" \/ is_participant(conversations[conversation_id],
                                            user)
    /\ FreeEnsuring # {}
    /\ rowtable' = [rowtable EXCEPT !.ensuring = @ \cup
          {[n |-> CHOOSE n \in FreeEnsuring : TRUE,
            op |-> op, user |-> user, conv |-> conversation_id,
            todo |-> <<user>>, stage |-> "get", code |-> 200]}]
    /\ last' = Op("state_ensure", user, conversation_id, None, None, None,
                  None, FALSE, FALSE)
    /\ UNCHANGED <<conversations, messages, states, notifications, conns,
                   groups, inflight, editing, opening, saving, scope,
                   creating, now>>

\* the requests in progress once request r is past the row of the head of
\* its todo: the next row, or the request is over
ensure_next(r) ==
    IF Len(r.todo) = 1 THEN rowtable.ensuring \ {r}
    ELSE (rowtable.ensuring \ {r})
            \cup {[r EXCEPT !.todo = Tail(@), !.stage = "get"]}

\* the record of a get_or_create step of request r: when it ends the
\* request, the request's operation and response code; the flag says
\* whether the insert was refused as a duplicate
ensure_last(r, refused) ==
    IF Len(r.todo) = 1
    THEN Op(r.op, r.user, r.conv, None, None, r.code, None, refused, FALSE)
    ELSE Op("get_or_create", r.user, r.conv, None, None, None, None,
            refused, FALSE)

\* get_or_create, the get: the row is there, or the insert is next
get_or_create_get(r) ==
    /\ r \in rowtable.ensuring
    /\ r.stage = "get"
    /\ LET key == <<r.conv, Head(r.todo)>> IN
       IF rowtable.count[key] >= 1
       THEN /\ rowtable' = [rowtable EXCEPT !.ensuring = ensure_next(r)]
            /\ last' = ensure_last(r, FALSE)
       ELSE /\ rowtable' = [rowtable EXCEPT !.ensuring =
                  (@ \ {r}) \cup {[r EXCEPT !.stage = "insert"]}]
            /\ last' = Op("get_or_create", r.user, r.conv, None, None, None,
                          None, FALSE, FALSE)
    /\ UNCHANGED <<conversations, messages, states, notifications, conns,
                   groups, inflight, editing, opening, saving, scope,
                   creating, now>>

\* get_or_create, the insert: a new row with the field defaults, or the
\* database refuses it (IntegrityError) and the row that is there is read
get_or_create_insert(r) ==
    /\ r \in rowtable.ensuring
    /\ r.stage = "insert"
    /\ LET key == <<r.conv, Head(r.todo)>> IN
       IF unique_conflict(rowtable.count, key)
       THEN /\ rowtable' = [rowtable EXCEPT !.ensuring = ensure_next(r)]
            /\ last' = ensure_last(r, TRUE)
            /\ UNCHANGED states
       ELSE /\ rowtable' = [count |-> [rowtable.count EXCEPT ![key] = @ + 1],
                            ensuring |-> ensure_next(r)]
            /\ states' = [states EXCEPT ![key].exists = TRUE]
            /\ last' = ensure_last(r, FALSE)
    /\ UNCHANGED <<conversations, messages, notifications, conns, groups,
                   inflight, editing, opening, saving, scope, creating, now>>

\* ConversationViewSet.mark_seen
mark_seen(user, pk) ==
    IF pk \notin ConversationQueryset(user)
    THEN /\ last' = Refused("mark_seen", 404)
         /\ UNCHANGED <<conversations, messages, states, notifications,
                        conns, groups, inflight, editing, opening, saving, scope, creating, rowtable, now>>
    ELSE LET hit == unread_from_others(messages, pk, user)
         IN /\ messages' = [m \in DOMAIN messages |->
                  IF m \in hit THEN read_message(messages[m])
                  ELSE messages[m]]
            /\ states' = [states EXCEPT ![<<pk, user>>] = seen_row(@, now)]
            /\ last' = Op("mark_seen", user, pk, None, None, 200,
                          Cardinality(hit), FALSE,
                          /\ last.op = "mark_seen" /\ last.user = user
                          /\ last.conv = pk /\ last.code = 200)
            /\ UNCHANGED <<conversations, notifications, conns, groups,
                           inflight, editing, opening, saving, scope, creating, rowtable, now>>

\* ConversationViewSet.mark_seen up to state.save: the bulk update of the
\* messages, get_or_create of the row, the clock, the fields set
mark_seen_begin(user, pk) ==
    IF pk \notin ConversationQueryset(user)
    THEN /\ last' = Refused("mark_seen", 404)
         /\ UNCHANGED <<conversations, messages, states, notifications,
                        conns, groups, inflight, editing, opening, saving, scope, creating, rowtable,
                        now>>
    ELSE LET hit == unread_from_others(messages, pk, user)
             key == <<pk, user>>
         IN /\ Cardinality(saving) < MaxSaving
            /\ messages' = [m \in DOMAIN messages |->
                  IF m \in hit THEN read_message(messages[m])
                  ELSE messages[m]]
            /\ states' = [states EXCEPT ![key].exists = TRUE]
            /\ saving' = saving \cup
                  {[op |-> "mark_seen", user |-> user, conv |-> pk,
                    instance |-> seen_row(states[key], now),
                    update_fields |->
                        {"last_seen_at", "last_read_at", "is_typing"},
                    count |-> Cardinality(hit)]}
            /\ last' = Op("mark_seen_begin", user, pk, None, None, None,
                          Cardinality(hit), FALSE, FALSE)
            /\ UNCHANGED <<conversations, notifications, conns, groups,
                           inflight, editing, opening, scope, creating, rowtable, now>>

\* ConversationViewSet.typing up to state.save
typing_begin(user, pk, is_typing) ==
    IF pk \notin ConversationQueryset(user)
    THEN /\ last' = Refused("typing", 404)
         /\ UNCHANGED <<conversations, messages, states, notifications,
                        conns, groups, inflight, editing, opening, saving, scope, creating, rowtable,
                        now>>
    ELSE LET key == <<pk, user>>
         IN /\ Cardinality(saving) < MaxSaving
            /\ states' = [states EXCEPT ![key].exists = TRUE]
            /\ saving' = saving \cup
                  {[op |-> "typing", user |-> user, conv |-> pk,
                    instance |-> set_typing_row(states[key], is_typing, now),
                    update_fields |-> {"is_typing", "last_typing_at"},
                    count |-> None]}
            /\ last' = Op("typing_begin", user, pk, None, None, None, None,
                          is_typing, FALSE)
            /\ UNCHANGED <<conversations, messages, notifications, conns,
                           groups, inflight, editing, opening, scope, creating, rowtable, now>>

\* state.save(update_fields=...) of a request that began, and the rest of
\* its handler: typing broadcasts the instance, then the response.  The
\* record says whether the row had changed since the request read it.
state_save(w) ==
    /\ w \in saving
    /\ LET key == <<w.conv, w.user>> IN
       /\ states' = [states EXCEPT
             ![key] = save(@, w.instance, w.update_fields)]
       /\ IF w.op = "typing"
          THEN /\ \A m \in groups[w.conv] : ~LogFull(m)
               /\ conns' = group_send(conns, groups[w.conv],
                     [type |-> "conversation.typing",
                      state |-> typing_payload(w.conv, w.user, w.instance)])
          ELSE UNCHANGED conns
       /\ last' = Op("state_save", w.user, w.conv, None, None, 200, w.count,
                     \E f \in DOMAIN states[key] \ w.update_fields :
                         states[key][f] # w.instance[f],
                     FALSE)
    /\ saving' = saving \ {w}
    /\ UNCHANGED <<conversations, messages, notifications, groups, inflight,
                   editing, opening, scope, creating, rowtable, now>>

\* ConversationViewSet.typing
typing(user, pk, is_typing) ==
    IF pk \notin ConversationQueryset(user)
    THEN /\ last' = Refused("typing", 404)
         /\ UNCHANGED <<conversations, messages, states, notifications,
                        conns, groups, inflight, editing, opening, saving, scope, creating, rowtable, now>>
    ELSE LET row == set_typing_row(states[<<pk, user>>], is_typing, now)
         IN /\ \A m \in groups[pk] : ~LogFull(m)
            /\ states' = [states EXCEPT ![<<pk, user>>] = row]
            /\ conns' = group_send(conns, groups[pk],
                  [type |-> "conversation.typing",
                   state |-> typing_payload(pk, user, row)])
            /\ last' = Op("typing", user, pk, None, None, 200, None,
                          is_typing, FALSE)
            /\ UNCHANGED <<conversations, messages, notifications, groups,
                           inflight, editing, opening, saving, scope, creating, rowtable, now>>

\* ConversationViewSet.typing with the body of the request as the client
\* sent it
typing_post(user, pk, data) == typing(user, pk, get_is_typing(data))

\* ------------------------------------------------------ specifications
MessageIds == 1..(MaxMessages + 1)

NextWs ==
    \/ \E c \in Conns, u \in Users \cup {Anonymous}, id \in RouteIds :
          connect(c, u, id)
    \/ \E c \in Conns : disconnect(c)
    \/ \E c \in Conns, content \in ClientEvents : receive_json(c, content)
    \/ \E c \in Conns : dispatch(c)

NextRest ==
    \/ \E u \in Users, id \in RouteIds, text \in Texts : create(u, id, text)
    \/ \E u \in Users, id \in RouteIds, text \in Texts :
          create_notification_error(u, id, text)
    \/ \E payload \in inflight : broadcast(payload)
    \/ \E payload \in inflight : respond_without_layer(payload)
    \/ \E u \in Users, id \in RouteIds, text \in Texts :
          create_insert(u, id, text)
    \/ \E r \in creating : create_finish(r)
    \/ \E u \in Users, pk \in MessageIds : mark_read(u, pk)
    \/ \E u \in Users, pk \in MessageIds, data \in UpdateData :
          update(u, pk, data)
    \/ \E e \in editing : perform_update(e)
    \/ \E u \in Users, pk \in RouteIds : mark_seen(u, pk)
    \/ \E u \in Users, pk \in RouteIds, b \in BOOLEAN : typing(u, pk, b)
    \/ \E u \in Users, seller_id \in {1, 2}, product_id \in {None, 1, 2} :
          conversation_create(u, seller_id, product_id)
    \/ \E o \in opening : conversation_insert(o)
    \/ \E u \in Users, pk \in RouteIds : mark_seen_begin(u, pk)
    \/ \E u \in Users, pk \in RouteIds, b \in BOOLEAN :
          typing_begin(u, pk, b)
    \/ \E w \in saving : state_save(w)
    \/ \E u \in Users, pk \in RouteIds, data \in TypingData :
          typing_post(u, pk, data)

\* the handshake by its two steps, and the typing handler by its two steps
NextAuth ==
    \/ \E c \in Conns, query \in Queries, header \in Headers :
          JWTAuthMiddleware(c, query, header)
    \/ \E c \in Conns, id \in RouteIds : inner(c, id)
    \/ \E c \in Conns, content \in ClientEvents : ws_typing_set(c, content)
    \/ \E c \in Conns : ws_typing_send(c)
    \/ \E c \in Conns, u \in Users \cup {Anonymous}, id \in RouteIds :
          connect_begin(c, u, id)
    \/ \E c \in Conns : connect_step(c)
    \/ \E u \in Users, seller_id \in {1, 2}, product_id \in {None, 1, 2} :
          conversation_ensure(u, seller_id, product_id)
    \/ \E op \in EnsureOps, u \in Users, id \in RouteIds :
          state_ensure(op, u, id)
    \/ \E r \in rowtable.ensuring : get_or_create_get(r)
    \/ \E r \in rowtable.ensuring : get_or_create_insert(r)

Next == NextAuth \/ NextWs \/ NextRest \/ Tick

Spec == Init /\ [][Next]_vars

\* The whole system is too large to enumerate at once.  Each specification
\* below keeps every action that writes what its claims read, and draws the
\* inputs of the others from the cases those claims are about.

\* admission to a group and what flows through it: every authenticated
\* user against both conversations, messages in both, presence from user 1
NextGate ==
    \/ \E c \in Conns, u \in Users, id \in ConvIds : connect(c, u, id)
    \/ \E c \in Conns : disconnect(c)
    \/ \E c \in Conns : dispatch(c)
    \/ \E u \in Users, id \in ConvIds : create(u, id, "t1")
    \/ \E payload \in inflight : broadcast(payload)
    \/ \E pk \in ConvIds : typing(1, pk, TRUE)

SpecGate == Init /\ [][NextGate]_vars

\* the message ledger: every request that writes a message
NextLedger ==
    \/ \E u \in Users, id \in RouteIds : create(u, id, "t1")
    \/ \E payload \in inflight : broadcast(payload)
    \/ \E u \in Users, pk \in MessageIds : mark_read(u, pk)
    \/ \E u \in Users, pk \in MessageIds :
          update(u, pk, [text |-> "t2", status |-> "sent", is_read |-> FALSE,
                         conversation |-> 2, sender |-> 3])
    \/ \E e \in editing : perform_update(e)
    \/ \E u \in Users, pk \in RouteIds : mark_seen(u, pk)

SpecLedger == Init /\ [][NextLedger]_vars

\* two participants of conversation 1, their connections and their messages
NextFanout ==
    \/ \E c \in Conns, u \in {1, 2} : connect(c, u, 1)
    \/ \E c \in Conns : disconnect(c)
    \/ \E c \in Conns : dispatch(c)
    \/ \E u \in {1, 2} : create(u, 1, "t1")
    \/ \E payload \in inflight : broadcast(payload)

SpecFanout == Init /\ [][NextFanout]_vars

\* presence: every connection attempt, every client event, and typing
\* requests of the participants of conversation 1
NextTyping ==
    \/ NextWs
    \/ \E u \in Users, pk \in {0, 1} : typing(u, pk, TRUE)

SpecTyping == Init /\ [][NextTyping]_vars

\* message create with its notification, seen from conversation 1
NextNotify ==
    \/ \E c \in Conns, u \in Users : connect(c, u, 1)
    \/ \E c \in Conns : disconnect(c)
    \/ \E c \in Conns : dispatch(c)
    \/ \E u \in Users, id \in RouteIds, text \in Texts : create(u, id, text)
    \/ \E payload \in inflight : broadcast(payload)

SpecNotify == Init /\ [][NextNotify]_vars

\* mark-all-seen over time, in conversation 1
NextSeen ==
    \/ \E u \in Users, id \in {0, 1} : create(u, id, "t1")
    \/ \E payload \in inflight : broadcast(payload)
    \/ \E u \in Users, pk \in {0, 1} : mark_seen(u, pk)
    \/ \E u \in Users, pk \in {0, 1} : typing(u, pk, TRUE)
    \/ Tick

SpecSeen == Init /\ [][NextSeen]_vars

\* the opening and closing of connections: every identity against every
\* kind of id the route lets through, and pings on what opens
NextOpen ==
    \/ \E c \in Conns, u \in Users \cup {Anonymous},
          id \in RouteIds \cup {MissingId} : connect(c, u, id)
    \/ \E c \in Conns : disconnect(c)
    \/ \E c \in Conns : receive_json(c, [type |-> "ping"])

SpecOpen == Init /\ [][NextOpen]_vars

\* the synchronous endpoints that change what peers display: user 1
\* writes to conversation 1, user 2 reads there and has the connections
NextSync ==
    \/ \E c \in Conns : connect(c, 2, 1)
    \/ \E c \in Conns : disconnect(c)
    \/ \E c \in Conns : dispatch(c)
    \/ create(1, 1, "t1")
    \/ \E payload \in inflight : broadcast(payload)
    \/ mark_seen(2, 1)
    \/ \E pk \in MessageIds : mark_read(2, pk)
    \/ typing(2, 1, TRUE)

SpecSync == Init /\ [][NextSync]_vars

\* the opening of conversations: every user towards the seller, with and
\* without the product, and towards a seller and a product that do not
\* exist; time passes between requests
NextConv ==
    \/ \E u \in Users, seller_id \in {1, 2}, product_id \in {None, 1, 2} :
          conversation_create(u, seller_id, product_id)
    \/ \E o \in opening : conversation_insert(o)
    \/ Tick

SpecConv == Init /\ [][NextConv]_vars

\* writers of one participant state row, (conversation 1, user 2), served
\* at the same time: mark_seen and typing requests, and connections of the
\* user that open (the consumer's _mark_seen) and close (its _set_typing)
NextRace ==
    \/ mark_seen_begin(2, 1)
    \/ typing_begin(2, 1, TRUE)
    \/ \E w \in saving : state_save(w)
    \/ \E c \in Conns : connect(c, 2, 1)
    \/ \E c \in Conns : disconnect(c)
    \/ Tick

SpecRace == Init /\ [][NextRace]_vars

\* message create with a notification table that may fail to take a row
NextFault ==
    \/ \E c \in Conns : connect(c, 2, 1)
    \/ \E c \in Conns : disconnect(c)
    \/ \E c \in Conns : dispatch(c)
    \/ \E text \in Texts : create(1, 1, text)
    \/ \E text \in Texts : create_notification_error(1, 1, text)
    \/ \E payload \in inflight : broadcast(payload)

SpecFault == Init /\ [][NextFault]_vars

\* presence input as clients send it, well formed or not: user 2 in
\* conversation 1
NextMalformed ==
    \/ \E c \in Conns : connect(c, 2, 1)
    \/ \E c \in Conns : disconnect(c)
    \/ \E c \in Conns : dispatch(c)
    \/ \E c \in Conns, content \in ClientEvents : receive_json(c, content)
    \/ \E data \in TypingData : typing_post(2, 1, data)

SpecMalformed == Init /\ [][NextMalformed]_vars

\* the handshake: every token a client can present, then the consumer on
\* conversation 1, with presence events on what opens
NextHandshake ==
    \/ \E c \in Conns, query \in Queries, header \in Headers :
          JWTAuthMiddleware(c, query, header)
    \/ \E c \in Conns : inner(c, 1)
    \/ \E c \in Conns : disconnect(c)
    \/ \E c \in Conns : receive_json(c, [type |-> "typing"])
    \/ \E c \in Conns : dispatch(c)

SpecHandshake == Init /\ [][NextHandshake]_vars

\* the synchronous endpoints of conversation 1 called by its participants
\* and by user 3, who is not one
NextOutsider ==
    \/ \E u \in {1, 2} : create(u, 1, "t1")
    \/ \E payload \in inflight : broadcast(payload)
    \/ \E u \in Users : mark_seen(u, 1)
    \/ \E u \in Users, pk \in MessageIds : mark_read(u, pk)
    \/ \E u \in Users : typing(u, 1, TRUE)

SpecOutsider == Init /\ [][NextOutsider]_vars

\* reading message by message as time passes: the participants of
\* conversation 1 write there and type, and every user marks read
NextRead ==
    \/ \E u \in {1, 2} : create(u, 1, "t1")
    \/ \E payload \in inflight : broadcast(payload)
    \/ \E u \in Users, pk \in MessageIds : mark_read(u, pk)
    \/ \E u \in {1, 2} : typing(u, 1, TRUE)
    \/ Tick

SpecRead == Init /\ [][NextRead]_vars

\* typing and seeing side by side as time passes: user 2 connects to
\* conversation 1 on one connection, types there over the connection and marks it seen,
\* and user 1 sends typing requests and writes
NextPresence ==
    \/ \E c \in {1} : connect(c, 2, 1)
    \/ \E c \in {1} : disconnect(c)
    \/ \E c \in {1} : dispatch(c)
    \/ \E c \in {1}, b \in BOOLEAN :
          receive_json(c, [type |-> "typing", is_typing |-> b])
    \/ typing(1, 1, TRUE)
    \/ mark_seen(2, 1)
    \/ create(1, 1, "t1")
    \/ \E payload \in inflight : broadcast(payload)
    \/ Tick

SpecPresence == Init /\ [][NextPresence]_vars

\* message creates where nobody may be listening: connections of user 2
\* on conversation 1 only, creates in both conversations.  Whether a
\* channel layer is configured is a setting of the deployment; it is left
\* open per request here, which covers both settings.
NextQuiet ==
    \/ \E c \in Conns : connect(c, 2, 1)
    \/ \E c \in Conns : disconnect(c)
    \/ \E c \in Conns : dispatch(c)
    \/ \E u \in Users, id \in ConvIds, text \in Texts : create(u, id, text)
    \/ \E payload \in inflight : broadcast(payload)
    \/ \E payload \in inflight : respond_without_layer(payload)
    \/ Tick

SpecQuiet == Init /\ [][NextQuiet]_vars

\* message creates served at the same time, in both conversations, while
\* time passes
NextTouch ==
    \/ \E u \in Users, id \in RouteIds : create_insert(u, id, "t1")
    \/ \E r \in creating : create_finish(r)
    \/ \E payload \in inflight : broadcast(payload)
    \/ Tick

SpecTouch == Init /\ [][NextTouch]_vars

\* typing events of user 2 on conversation 1 whose handlers are
\* interleaved with the other writers of the user's row: a second
\* connection opening and closing, mark_seen, typing and create requests
NextSnapshot ==
    \/ \E c \in Conns : connect(c, 2, 1)
    \/ \E c \in Conns : disconnect(c)
    \/ \E c \in Conns : dispatch(c)
    \/ \E c \in Conns, b \in BOOLEAN :
          ws_typing_set(c, [type |-> "typing", is_typing |-> b])
    \/ \E c \in Conns : ws_typing_send(c)
    \/ mark_seen(2, 1)
    \/ typing(2, 1, FALSE)
    \/ create(2, 1, "t1")
    \/ \E payload \in inflight : broadcast(payload)

SpecSnapshot == Init /\ [][NextSnapshot]_vars

\* connections to conversation 1 followed step by step, by its
\* participants, by user 3 and without identity, while messages are
\* created there
NextSteps ==
    \/ \E c \in Conns, u \in Users \cup {Anonymous} : connect_begin(c, u, 1)
    \/ \E c \in Conns : connect_step(c)
    \/ \E c \in Conns : disconnect(c)
    \/ \E c \in Conns : dispatch(c)
    \/ \E u \in {1, 2} : create(u, 1, "t1")
    \/ \E payload \in inflight : broadcast(payload)

SpecSteps == Init /\ [][NextSteps]_vars

\* create-if-absent of participant state rows by requests served at the
\* same time: conversation creates towards seller 1 with and without the
\* product, close hooks and typing requests on both conversations
NextRows ==
    \/ \E u \in Users, product_id \in {None, 1} :
          conversation_ensure(u, 1, product_id)
    \/ \E op \in {"disconnect", "typing"}, u \in Users, id \in ConvIds :
          state_ensure(op, u, id)
    \/ \E r \in rowtable.ensuring : get_or_create_get(r)
    \/ \E r \in rowtable.ensuring : get_or_create_insert(r)

SpecRows == Init /\ [][NextRows]_vars

\* ------------------------------------------------------------ properties
\* the step just taken is a handler step of operation op (Tick is the only
\* step that reads no request and leaves the record alone)
Did(op) == now' = now /\ last'.op = op

\* the connection attempt of slot c was made by an authenticated user who
\* is neither the buyer nor the seller's owner of an existing conversation
Forbidden(c) ==
    /\ conns[c].user # Anonymous
    /\ conns[c].conversation_id \in DOMAIN conversations
    /\ conversations[conns[c].conversation_id].buyer # conns[c].user
    /\ conversations[conns[c].conversation_id].seller_user # conns[c].user

IsMessage(x) == x.type \in {"chat.message", "message.created"}

IsPresence(x) == x.type = "conversation.typing"

\* C1: a connection attempt by an authenticated user who is neither the
\* buyer nor the seller's owner of the conversation is closed with 4403, is
\* in no broadcast group, and neither is sent nor receives any event
C1_NonParticipantRefused ==
    \A c \in Conns :
        Forbidden(c) =>
            /\ conns[c].phase \in {"rejected", "closed"}
            /\ conns[c].close_code = 4403
            /\ ~conns[c].joined
            /\ \A g \in ConvIds : c \notin groups[g]
            /\ conns[c].inbox = <<>>
            /\ conns[c].received = <<>>

\* a refused attempt on a conversation in which another connection has
\* received a message event and a presence event
C1_Witness ==
    \E c \in Conns, d \in Conns :
        /\ Forbidden(c)
        /\ conns[c].close_code = 4403
        /\ conns[d].phase = "open"
        /\ conns[d].conversation_id = conns[c].conversation_id
        /\ \E i \in DOMAIN conns[d].received, j \in DOMAIN conns[d].received :
              /\ IsMessage(conns[d].received[i])
              /\ IsPresence(conns[d].received[j])

\* C2: every connection registered in the group of a conversation was
\* opened by its buyer or its seller's owner, and a message event is queued
\* for or sent to only connections registered in the group of the
\* message's own conversation
C2_NoLeak ==
    \A c \in Conns :
        /\ \A g \in ConvIds :
              c \in groups[g] =>
                  /\ conns[c].conversation_id = g
                  /\ \/ conversations[g].buyer = conns[c].user
                     \/ conversations[g].seller_user = conns[c].user
        /\ \A i \in DOMAIN (conns[c].received \o conns[c].inbox) :
              LET x == (conns[c].received \o conns[c].inbox)[i] IN
              IsMessage(x) =>
                  /\ conns[c].joined
                  /\ conns[c].conversation_id = x.message.conversation
                  /\ \/ conversations[x.message.conversation].buyer
                            = conns[c].user
                     \/ conversations[x.message.conversation].seller_user
                            = conns[c].user

\* two connections in the groups of different conversations, each having
\* received a message
C2_Witness ==
    \E c \in Conns, d \in Conns :
        /\ c \in groups[1]
        /\ d \in groups[2]
        /\ \E i \in DOMAIN conns[c].received : IsMessage(conns[c].received[i])
        /\ \E j \in DOMAIN conns[d].received : IsMessage(conns[d].received[j])

StatusRank(status) ==
    CASE status = STATUS_SENT -> 0
      [] status = STATUS_DELIVERED -> 1
      [] status = STATUS_READ -> 2

\* C3: over create, mark_read, mark_seen and update, a message starts as
\* sent and unread, is never removed, its status never moves backward, and
\* once it is read it stays read
C3_StatusNeverBackward ==
    [][\A m \in DOMAIN messages' :
          IF m \in DOMAIN messages
          THEN /\ StatusRank(messages'[m].status)
                    >= StatusRank(messages[m].status)
               /\ messages[m].is_read =>
                     /\ messages'[m].is_read
                     /\ messages'[m].status = STATUS_READ
          ELSE /\ messages'[m].status = STATUS_SENT
               /\ ~messages'[m].is_read]_vars

\* C4: mark_read by the message's own sender changes no message and no
\* participant state, and answers 200 with the message's current is_read
C4_SenderMarkReadNoOp ==
    [][(/\ Did("mark_read")
        /\ last'.code = 200
        /\ messages[last'.msg].sender = last'.user)
       => /\ messages' = messages
          /\ states' = states
          /\ last'.flag = messages[last'.msg].is_read]_vars

\* the sender asked about a message of theirs that the other side has read
C4_Witness ==
    /\ last.op = "mark_read"
    /\ last.code = 200
    /\ messages[last.msg].sender = last.user
    /\ messages[last.msg].is_read
    /\ last.flag
\* the events a connection has been sent or has waiting, oldest first
Log(c) == conns[c].received \o conns[c].inbox

\* C5: each connection gets the message events of its conversation in the
\* order the messages were created, concurrent creates included
C5_FanoutInCreationOrder ==
    \A c \in Conns :
        \A i \in DOMAIN Log(c), j \in DOMAIN Log(c) :
            (i < j /\ IsMessage(Log(c)[i]) /\ IsMessage(Log(c)[j]))
                => Log(c)[i].message.id < Log(c)[j].message.id

\* C6: the close of a connection of an authenticated user leaves that
\* user's row of the conversation with is_typing false, and is_typing turns
\* true again only by a later typing event of that user for that
\* conversation
C6_TypingClearsOnDisconnect ==
    [][/\ (/\ Did("disconnect")
            /\ last'.user # Anonymous
            /\ last'.conv \in DOMAIN conversations)
           => /\ states'[<<last'.conv, last'.user>>].exists
              /\ ~states'[<<last'.conv, last'.user>>].is_typing
       /\ \A k \in DOMAIN states :
              (~states[k].is_typing /\ states'[k].is_typing)
                  => /\ last'.op \in {"typing", "ws_typing"}
                     /\ last'.flag
                     /\ last'.conv = k[1]
                     /\ last'.user = k[2]]_vars

\* a connection that was sent its own user's is_typing true, closed while
\* the row still said typing, and the row now says not typing
C6_Witness ==
    /\ last.op = "disconnect"
    /\ last.flag
    /\ conns[last.conn].phase = "closed"
    /\ \E i \in DOMAIN conns[last.conn].received :
          LET x == conns[last.conn].received[i] IN
          /\ IsPresence(x)
          /\ "user_id" \in DOMAIN x.state
          /\ x.state.user_id = last.user
          /\ x.state.is_typing
    /\ ~states[<<last.conv, last.user>>].is_typing

\* the participant of a conversation who is not user
OtherParticipant(conversation, user) ==
    CHOOSE v \in {conversation.buyer, conversation.seller_user} :
        v # user \/ conversation.buyer = conversation.seller_user

\* C7: a created message goes out with exactly the submitted text and
\* status sent to every connection of the conversation's group, the other
\* participant's included, whose consumer passes it on unchanged; and each
\* created message has exactly one notification, of type chat_message,
\* addressed to the other participant and not to the sender
C7_MessageEventAndNotification ==
    /\ [](/\ Len(notifications) = Len(messages)
          /\ \A m \in DOMAIN messages :
                /\ notifications[m].message_id = m
                /\ notifications[m].notif_type = "chat_message"
                /\ notifications[m].conversation_id = messages[m].conversation
                /\ notifications[m].user # messages[m].sender
                /\ notifications[m].user =
                      OtherParticipant(
                          conversations[messages[m].conversation],
                          messages[m].sender)
          /\ \A c \in Conns :
                conns[c].phase = "open"
                    => c \in groups[conns[c].conversation_id])
    /\ [][/\ \A u \in Users, id \in ConvIds, text \in Texts :
               (create(u, id, text) /\ last'.code = None)
                   => /\ Len(messages') = Len(messages) + 1
                      /\ messages'[Len(messages')].text = text
                      /\ \E p \in inflight' \ inflight :
                            /\ inflight' = inflight \cup {p}
                            /\ p.id = Len(messages')
                            /\ p.conversation = id
                            /\ p.sender = u
                            /\ p.text = text
                            /\ p.status = STATUS_SENT
          /\ Did("broadcast")
               => \E p \in inflight :
                     /\ p.id = last'.msg
                     /\ p.status = STATUS_SENT
                     /\ \A d \in groups[p.conversation] :
                           conns'[d].inbox =
                               Append(conns[d].inbox,
                                      [type |-> "chat.message", message |-> p])
          /\ \A c \in Conns :
               (/\ Did("dispatch")
                /\ last'.conn = c
                /\ IsMessage(Head(conns[c].inbox)))
                   => conns'[c].received =
                          Append(conns[c].received,
                                 [type |-> "message.created",
                                  message |-> Head(conns[c].inbox).message])
         ]_vars

\* a connection of one participant has received the other participant's
\* message with its text and status sent, and the notification of that
\* message is addressed to the receiving participant
C7_Witness ==
    \E c \in Conns :
        /\ conns[c].phase = "open"
        /\ \E i \in DOMAIN conns[c].received :
              LET x == conns[c].received[i] IN
              /\ x.type = "message.created"
              /\ x.message.sender # conns[c].user
              /\ x.message.text = "t2"
              /\ x.message.status = STATUS_SENT
              /\ notifications[x.message.id].user = conns[c].user

\* C8: mark_seen by participant u on conversation C sets every message of
\* C that is unread and not sent by u to read with is_read true, and
\* leaves every other message as it was, the messages u sent and the
\* messages of other conversations among them
C8_MarkSeenReadsOthers ==
    [][(Did("mark_seen") /\ last'.code = 200)
       => /\ DOMAIN messages' = DOMAIN messages
          /\ \A m \in DOMAIN messages :
                IF /\ messages[m].conversation = last'.conv
                   /\ messages[m].sender # last'.user
                   /\ ~messages[m].is_read
                THEN messages'[m] = [messages[m] EXCEPT
                                       !.is_read = TRUE,
                                       !.status = STATUS_READ]
                ELSE messages'[m] = messages[m]]_vars

\* a mark_seen that read a message of the other side while a message of
\* the caller in the same conversation stays unread and sent
C8_Witness ==
    /\ last.op = "mark_seen"
    /\ last.code = 200
    /\ last.count >= 1
    /\ \E m \in DOMAIN messages :
          /\ messages[m].conversation = last.conv
          /\ messages[m].sender # last.user
          /\ messages[m].status = STATUS_READ
    /\ \E m \in DOMAIN messages :
          /\ messages[m].conversation = last.conv
          /\ messages[m].sender = last.user
          /\ ~messages[m].is_read
          /\ messages[m].status = STATUS_SENT

\* C9: a mark_seen that directly follows a mark_seen of the same user on
\* the same conversation answers 200 with zero messages marked, changes no
\* message, and leaves the caller's row not typing with seen and read set
\* to the time of this call, not before their earlier values
C9_MarkSeenIdempotent ==
    [][(Did("mark_seen") /\ last'.code = 200 /\ last'.repeat)
       => LET key == <<last'.conv, last'.user>> IN
          /\ last'.count = 0
          /\ messages' = messages
          /\ ~states'[key].is_typing
          /\ states'[key].last_seen_at = now
          /\ states'[key].last_read_at = now
          /\ states'[key].last_seen_at >= states[key].last_seen_at
          /\ states'[key].last_read_at >= states[key].last_read_at
          /\ states'[key].last_typing_at = states[key].last_typing_at
          /\ \A k \in DOMAIN states : k # key => states'[k] = states[k]]_vars

\* a second mark_seen in a row, later than the creation of a message of
\* the other side that the first one read
C9_Witness ==
    /\ last.op = "mark_seen"
    /\ last.code = 200
    /\ last.repeat
    /\ \E m \in DOMAIN messages :
          /\ messages[m].conversation = last.conv
          /\ messages[m].sender # last.user
          /\ messages[m].is_read
          /\ states[<<last.conv, last.user>>].last_seen_at
                > messages[m].created_at

C11_CloseCodeMatchesReason ==
    (last.op = "connect" /\ last.code # None)
        => last.code = (IF last.user = Anonymous THEN 4401
                        ELSE IF last.conv < 1 THEN 4400
                        ELSE 4403)

\* C12: a connection attempt of an authenticated user to an id that no
\* conversation has is not closed with the unauthenticated code nor with
\* the forbidden code
C12_MissingConversationNotForbidden ==
    (/\ last.op = "connect"
     /\ last.user # Anonymous
     /\ last.conv \notin DOMAIN conversations)
        => (last.code # None /\ last.code \notin {4401, 4403})

\* C17: every participant state row is of an existing conversation and of
\* its buyer or of the owner of its seller
C17_StateRowsOfParticipants ==
    \A k \in DOMAIN states :
        states[k].exists
            => /\ k[1] \in DOMAIN conversations
               /\ \/ conversations[k[1]].buyer = k[2]
                  \/ conversations[k[1]].seller_user = k[2]

\* C15: a message create by a user who is neither the buyer nor the owner
\* of the seller of the target conversation is refused with 403, and the
\* refusal writes nothing: messages, conversations, participant states
\* and notifications stay as they are and nothing is queued or in flight
C15_RefusedCreateWritesNothing ==
    [][\A u \in Users, id \in DOMAIN conversations, text \in Texts :
          (/\ create(u, id, text)
           /\ conversations[id].buyer # u
           /\ conversations[id].seller_user # u)
              => /\ last'.op = "create"
                 /\ last'.code = 403
                 /\ UNCHANGED <<messages, conversations, states,
                                notifications, conns, groups, inflight>>]_vars

\* a refused create while the conversation has a message and an open
\* connection that a broadcast would reach
C15_Witness ==
    /\ last.op = "create"
    /\ last.code = 403
    /\ messages # <<>>
    /\ \E c \in Conns : conns[c].phase = "open" /\ c \in groups[1]

\* C20: after a successful connection open, every message of the
\* conversation not sent by the connecting user is read
C20_OpenReadsMessages ==
    (last.op = "connect" /\ last.code = None)
        => \A m \in DOMAIN messages :
              (/\ messages[m].conversation = last.conv
               /\ messages[m].sender # last.user)
                  => /\ messages[m].is_read
                     /\ messages[m].status = STATUS_READ

\* C13: a mark_seen, mark_read or typing request that changes a message or
\* a participant state also puts a presence event in the queue of every
\* connection registered in the group of the conversation
C13_RestChangesAreBroadcast ==
    [][(/\ now' = now
        /\ last'.op \in {"mark_seen", "mark_read", "typing"}
        /\ last'.code = 200
        /\ (messages' # messages \/ states' # states))
       => \A d \in groups[last'.conv] :
             /\ Len(conns'[d].inbox) = Len(conns[d].inbox) + 1
             /\ IsPresence(conns'[d].inbox[Len(conns'[d].inbox)])]_vars

\* C14: a message create whose notification write failed still completes:
\* the message is persisted, its payload is on the way to the group, and
\* the request does not end in an error
C14_NotificationFailureSwallowed ==
    (last.op = "create" /\ last.flag)
        => /\ last.msg \in DOMAIN messages
           /\ last.code # 500
           /\ \E p \in inflight : p.id = last.msg

\* C16: no two conversations have the same buyer, seller and product, the
\* absent product included
C16_OneConversationPerTriple ==
    \A a \in DOMAIN conversations, b \in DOMAIN conversations :
        a # b => ~same_triple(conversations[a], conversations[b].buyer,
                              conversations[b].seller,
                              conversations[b].product)

\* C18: the write of a mark_seen or of a typing request that was served
\* while other writers of the same row ran leaves the row as the whole
\* request run alone at the moment of its write would leave it, and leaves
\* every other row alone: the outcome is that of the writers run one after
\* the other in the order of their writes, and no writer's update is lost
C18_WritersSerializedPerKey ==
    [][\A w \in saving :
          state_save(w)
              => LET key == <<w.conv, w.user>> IN
                 /\ states'[key] =
                       (IF w.op = "mark_seen"
                        THEN seen_row(states[key], w.instance.last_seen_at)
                        ELSE set_typing_row(states[key], w.instance.is_typing,
                                            w.instance.last_typing_at))
                 /\ \A k \in DOMAIN states :
                       k # key => states'[k] = states[k]]_vars

\* a write of a request whose row was changed by another writer between
\* its read and its write
C18_Witness ==
    /\ last.op = "state_save"
    /\ last.flag

\* C19: last_seen_at and last_read_at of a row never decrease
C19_SeenReadNeverDecrease ==
    [][\A k \in DOMAIN states :
          /\ states'[k].last_seen_at >= states[k].last_seen_at
          /\ states'[k].last_read_at >= states[k].last_read_at]_vars

\* C21: a typing event on the socket, or a typing request, that has no
\* is_typing field changes no participant state and puts no presence event
\* in any queue
C21_MissingIsTypingRefused ==
    [][/\ \A c \in Conns :
             receive_json(c, [type |-> "typing"])
                 => UNCHANGED <<states, conns>>
       /\ \A u \in Users, pk \in DOMAIN conversations :
             typing_post(u, pk, [format |-> "json"])
                 => UNCHANGED <<states, conns>>]_vars

\* C22: an inbound event whose type is neither ping nor typing, or that has
\* no type, changes no table, queues and sends nothing to any connection,
\* and leaves the connection open and in its group
C22_UnknownEventIsNoOp ==
    [][\A c \in Conns, content \in UnknownEvents :
          receive_json(c, content)
              => /\ UNCHANGED <<conversations, messages, states,
                                notifications, conns, groups, inflight>>
                 /\ conns'[c].phase = "open"
                 /\ c \in groups'[conns[c].conversation_id]]_vars

\* an unknown event was handled on a connection that has received a
\* presence event, while its user's row says typing
C22_Witness ==
    /\ last.op = "ws_other"
    /\ conns[last.conn].phase = "open"
    /\ \E i \in DOMAIN conns[last.conn].received :
          IsPresence(conns[last.conn].received[i])
    /\ states[<<last.conv, last.user>>].is_typing

\* C23 as stated: when the query string has a token that is not the empty
\* string, the identity of the connection is the one of that token alone,
\* whatever the Authorization header holds
C23_QueryTokenAlone ==
    \A c \in Conns :
        (/\ scope[c].set
         /\ scope[c].query # <<>>
         /\ scope[c].query[1] # "")
            => scope[c].user = authenticate(strip(scope[c].query[1]))

\* C23, amended: when the query string has a token that is not blank
\* (not empty once the white space around it is removed), the identity of
\* the connection is the one of that token alone, whatever the
\* Authorization header holds
C23_NonBlankQueryTokenAlone ==
    \A c \in Conns :
        (/\ scope[c].set
         /\ scope[c].query # <<>>
         /\ strip(scope[c].query[1]) # "")
            => scope[c].user = authenticate(strip(scope[c].query[1]))

\* a connection that came with the token of user 1 in the query string and
\* the token of user 2 in a Bearer header, and was opened as user 1
C23_Witness ==
    \E c \in Conns :
        /\ scope[c].query = <<"tok1">>
        /\ scope[c].header # <<>>
        /\ lower(scope[c].header[1].scheme) = "bearer"
        /\ scope[c].header[1].credentials = "tok2"
        /\ conns[c].phase = "open"
        /\ conns[c].user = 1

\* the token the middleware settled on is none, or one that SimpleJWT
\* refuses: not a JWT, expired, or signed for a user that does not exist
NoValidToken(c) ==
    read_token(scope[c].query, scope[c].header) \notin {"tok1", "tok2"}

\* C24: a connection without a token, or with a token that fails
\* validation, gets the anonymous identity; the consumer closes it with
\* 4401 without registering it in a group and without writing to any
\* table, and the close hook that follows writes nothing either
C24_InvalidTokenDeferredTo4401 ==
    /\ [](\A c \in Conns :
             (scope[c].set /\ NoValidToken(c))
                 => /\ scope[c].user = Anonymous
                    /\ conns[c].phase # "open"
                    /\ conns[c].phase # "new" => conns[c].close_code = 4401
                    /\ \A g \in DOMAIN groups : c \notin groups[g]
                    /\ conns[c].inbox = <<>> /\ conns[c].received = <<>>)
    /\ [][\A c \in Conns :
             (/\ scope[c].set
              /\ NoValidToken(c)
              /\ \/ \E id \in RouteIds : inner(c, id)
                 \/ disconnect(c))
                 => UNCHANGED <<conversations, messages, states,
                               notifications, groups, inflight>>]_vars

\* a connection that came with an expired token has been closed with 4401
\* and its close hook has run, while the row of a user with an open
\* connection says typing
C24_Witness ==
    \E c \in Conns, d \in Conns :
        /\ scope[c].header # <<>>
        /\ scope[c].header[1].credentials = "expired"
        /\ read_token(scope[c].query, scope[c].header) = "expired"
        /\ conns[c].phase = "closed"
        /\ conns[c].close_code = 4401
        /\ last.op = "disconnect"
        /\ last.conn = c
        /\ conns[d].phase = "open"
        /\ states[<<1, conns[d].user>>].is_typing

\* C25: a mark_seen, typing or mark_read request of a user who is not a
\* participant of the conversation is answered 403, changes no message and
\* no participant state, and queues nothing
C25_NonParticipantForbidden ==
    [][/\ \A u \in Users, pk \in DOMAIN conversations :
             (/\ ~is_participant(conversations[pk], u)
              /\ mark_seen(u, pk) \/ typing(u, pk, TRUE))
                 => /\ last'.code = 403
                    /\ UNCHANGED <<messages, states, conns>>
       /\ \A u \in Users, pk \in DOMAIN messages :
             (/\ ~is_participant(conversations[messages[pk].conversation], u)
              /\ mark_read(u, pk))
                 => /\ last'.code = 403
                    /\ UNCHANGED <<messages, states, conns>>]_vars

\* C26: in every state, a message has is_read true exactly when its status
\* is read
C26_IsReadInLockstep ==
    \A m \in DOMAIN messages :
        messages[m].is_read <=> messages[m].status = STATUS_READ

\* a message read by mark_read and then rewritten by an update, next to a
\* message that is still sent and unread
C26_Witness ==
    /\ last.op = "perform_update"
    /\ messages[last.msg].is_read
    /\ messages[last.msg].status = STATUS_READ
    /\ messages[last.msg].text = "t2"
    /\ \E m \in DOMAIN messages :
          ~messages[m].is_read /\ messages[m].status = STATUS_SENT

\* the conversation whose group an event was sent to
EventGroup(x) ==
    IF IsMessage(x) THEN x.message.conversation ELSE x.state.conversation

\* C27: a connection is registered in a group exactly while it is open; an
\* event is put in the queue of a connection only by a send to a group the
\* connection is registered in at that moment; and a frame of a message
\* or presence event reaches a connection only from the head of its own
\* queue.  So a connection never gets an event that was sent before it
\* was registered or after it was deregistered.
C27_UnregisteredNeverReceives ==
    /\ [](\A c \in Conns :
             /\ \A g \in DOMAIN groups :
                   c \in groups[g]
                       <=> (conns[c].phase = "open"
                            /\ conns[c].conversation_id = g)
             /\ conns[c].phase # "open" => conns[c].inbox = <<>>)
    /\ [][\A c \in Conns :
             /\ Len(conns'[c].inbox) > Len(conns[c].inbox)
                   => LET x == conns'[c].inbox[Len(conns'[c].inbox)] IN
                      /\ conns'[c].inbox = Append(conns[c].inbox, x)
                      /\ c \in groups[EventGroup(x)]
                      /\ last'.op \in {"broadcast", "typing", "ws_typing",
                                        "state_save"}
             /\ (/\ conns'[c].received # conns[c].received
                 /\ conns[c].phase = "open")
                   => LET f == conns'[c].received[Len(conns'[c].received)] IN
                      /\ conns'[c].received = Append(conns[c].received, f)
                      /\ (IsMessage(f) \/ IsPresence(f))
                            => /\ conns[c].inbox # <<>>
                               /\ conns'[c].inbox = Tail(conns[c].inbox)
                               /\ c \in groups[EventGroup(f)]
                               /\ IF IsMessage(f)
                                  THEN f.message = Head(conns[c].inbox).message
                                  ELSE f.state = Head(conns[c].inbox).state
             /\ conns[c].phase \in {"rejected", "closed"}
                   => /\ conns'[c].received = conns[c].received
                      /\ conns'[c].inbox = <<>>]_vars

\* message 1 has been sent to the group of its conversation; one
\* connection of that conversation, opened after the send, has received a
\* later message and not message 1, and another, closed before the send of
\* message 2, has received message 1 and not message 2
C27_Witness ==
    \E c \in Conns, d \in Conns :
        /\ Len(messages) = 2
        /\ inflight = {}
        /\ messages[1].conversation = messages[2].conversation
        /\ conns[c].phase = "open"
        /\ conns[c].conversation_id = messages[1].conversation
        /\ \E i \in DOMAIN conns[c].received :
              /\ IsMessage(conns[c].received[i])
              /\ conns[c].received[i].message.id = 2
        /\ \A i \in DOMAIN conns[c].received :
              IsMessage(conns[c].received[i])
                  => conns[c].received[i].message.id # 1
        /\ conns[d].phase = "closed"
        /\ conns[d].conversation_id = messages[1].conversation
        /\ \E i \in DOMAIN conns[d].received :
              /\ IsMessage(conns[d].received[i])
              /\ conns[d].received[i].message.id = 1
        /\ \A i \in DOMAIN conns[d].received :
              IsMessage(conns[d].received[i])
                  => conns[d].received[i].message.id # 2

\* C28: a message create by a participant while the group of the
\* conversation has no connection, or with no channel layer, persists the
\* message as sent and unread, sets the conversation's last_message_at and
\* the sender's state, makes the notification of the other participant,
\* and its second half can always run and answers 201 without touching
\* any table or connection
C28_EmptyGroupCreateSucceeds ==
    /\ [](\A p \in inflight :
             /\ groups[p.conversation] = {} => ENABLED broadcast(p)
             /\ ENABLED respond_without_layer(p))
    /\ [][/\ \A u \in Users, id \in ConvIds, text \in Texts :
               (/\ create(u, id, text)
                /\ is_participant(conversations[id], u)
                /\ groups[id] = {})
                   => LET m == Len(messages') IN
                      /\ m = Len(messages) + 1
                      /\ messages'[m] =
                            [conversation |-> id, sender |-> u,
                             text |-> text, status |-> STATUS_SENT,
                             is_read |-> FALSE, created_at |-> now]
                      /\ conversations'[id].last_message_at = now
                      /\ states'[<<id, u>>].last_seen_at = now
                      /\ states'[<<id, u>>].last_read_at = now
                      /\ ~states'[<<id, u>>].is_typing
                      /\ Len(notifications') = Len(notifications) + 1
                      /\ notifications'[Len(notifications')] =
                            [user |-> OtherParticipant(conversations[id], u),
                             notif_type |-> "chat_message",
                             conversation_id |-> id, message_id |-> m]
                      /\ last'.code # 400 /\ last'.code # 403
                      /\ \E p \in inflight' : p.id = m
          /\ (\/ Did("broadcast") /\ groups[last'.conv] = {}
              \/ Did("respond"))
                   => /\ last'.code = 201
                      /\ UNCHANGED <<conversations, messages, states,
                                     notifications, conns, groups>>]_vars

\* a create in conversation 2, whose group is empty, has been answered 201
\* after a later tick, while conversation 1 has an open connection that
\* was sent nothing
C28_Witness ==
    /\ last.op \in {"broadcast", "respond"}
    /\ last.code = 201
    /\ last.conv = 2
    /\ groups[2] = {}
    /\ messages[last.msg].status = STATUS_SENT
    /\ messages[last.msg].created_at > 0
    /\ conversations[2].last_message_at = messages[last.msg].created_at
    /\ notifications[last.msg].user # last.user
    /\ \E c \in Conns :
          /\ c \in groups[1]
          /\ conns[c].inbox = <<>>
          /\ Len(conns[c].received) = 1

\* the messages of a conversation
MessagesOf(conversation_id) ==
    {m \in DOMAIN messages : messages[m].conversation = conversation_id}

\* C29: whenever no create is under way, last_message_at of a conversation
\* that has messages is the created_at of the message created last in it;
\* and last_message_at never decreases
C29_LastMessageAtIsLatest ==
    /\ [](creating = {}
            => \A id \in DOMAIN conversations :
                  MessagesOf(id) # {}
                      => conversations[id].last_message_at =
                            messages[CHOOSE m \in MessagesOf(id) :
                                \A k \in MessagesOf(id) : k <= m].created_at)
    /\ [][\A id \in DOMAIN conversations :
             conversations'[id].last_message_at
                 >= conversations[id].last_message_at]_vars

\* C30: the presence snapshot that the handler of a typing event sends to
\* the group has the is_typing that this event set, whatever ran between
\* the handler's write and its read of the row
C30_SnapshotCarriesOwnValue ==
    [][Did("ws_typing_send")
       => \A d \in groups[last'.conv] :
             LET x == conns'[d].inbox[Len(conns'[d].inbox)] IN
             /\ IsPresence(x)
             /\ x.state.user_id = last'.user
             /\ x.state.is_typing = last'.flag]_vars

\* the connection events a connection has been sent
ConnectionFrames(c) ==
    {i \in DOMAIN conns[c].received : conns[c].received[i].type = "connection"}

\* C31: an open that is not rejected registers the connection in the group,
\* then accepts it, then marks the conversation seen, then sends the
\* connection event, in that order; a connection that was opened has been
\* sent exactly one connection event, with the conversation id and the
\* user id, before any other frame, and a connection that was not gets
\* none
C31_OpenStepsInOrder ==
    /\ [](\A c \in Conns :
             LET n == Len(conns[c].steps) IN
             /\ conns[c].steps =
                   SubSeq(<<"group_add", "accept", "_mark_seen", "send_json">>,
                          1, n)
             /\ conns[c].phase = "connecting" => n < 4
             /\ conns[c].phase = "open" => n = 4
             /\ conns[c].phase \in {"new", "rejected"} => n = 0
             /\ n >= 1 <=> conns[c].joined
             /\ n >= 3 => states[<<conns[c].conversation_id,
                                    conns[c].user>>].last_seen_at # None
             /\ Cardinality(ConnectionFrames(c)) = (IF n = 4 THEN 1 ELSE 0)
             /\ n = 4 => conns[c].received[1] =
                            [type |-> "connection",
                             conversation_id |-> conns[c].conversation_id,
                             user_id |-> conns[c].user]
             /\ n < 4 => conns[c].received = <<>>)
    /\ [][\A c \in Conns :
             /\ (c \notin groups[1] /\ c \in groups'[1])
                   => conns[c].steps = <<>>
             /\ (states' # states /\ last'.conn = c)
                   => (Len(conns[c].steps) = 2 \/ last'.op = "disconnect")
             /\ Len(conns'[c].received) > 0 /\ conns[c].received = <<>>
                   => Len(conns[c].steps) = 3]_vars

\* a connection of a participant that was opened step by step after a
\* message was sent while it was registered and not yet open: the
\* connection event is its first frame and the message its second
C31_Witness ==
    \E c \in Conns, d \in Conns :
        /\ conns[c].phase = "open"
        /\ Len(conns[c].steps) = 4
        /\ Len(conns[c].received) = 2
        /\ conns[c].received[1].type = "connection"
        /\ IsMessage(conns[c].received[2])
        /\ conns[d].phase \in {"rejected", "closed"}
        /\ conns[d].close_code = 4403
        /\ conns[d].received = <<>>

\* C32: the table never holds two participant state rows of one
\* (conversation, user), whatever create-if-absent requests run at the
\* same time; and when a conversation create request ends, the table holds
\* exactly one row for the buyer and exactly one for the owner of the
\* seller, the conversation being new or reused
C32_OneRowPerKey ==
    /\ [](\A k \in DOMAIN rowtable.count :
             /\ rowtable.count[k] <= 1
             /\ rowtable.count[k] = 1
                   <=> (k \in DOMAIN states /\ states[k].exists))
    /\ [][\A r \in rowtable.ensuring :
             (/\ r.op = "conversation_create"
              /\ \A q \in rowtable'.ensuring : q.n # r.n)
                 => /\ last'.code \in {200, 201}
                    /\ rowtable'.count[<<r.conv,
                                         conversations[r.conv].buyer>>] = 1
                    /\ rowtable'.count[<<r.conv,
                                         conversations[r.conv].seller_user>>]
                          = 1]_vars

\* a conversation create that reused a conversation made by a request
\* still in progress has ended, its insert of a row having been refused
\* as a duplicate of the row the other request made
C32_Witness ==
    /\ last.op = "conversation_create"
    /\ last.code = 200
    /\ last.flag
    /\ last.conv \notin ConvIds
    /\ rowtable.count[<<last.conv, conversations[last.conv].buyer>>] = 1
    /\ rowtable.count[<<last.conv, conversations[last.conv].seller_user>>] = 1

\* C33: the sender of every message is the buyer or the owner of the seller
\* of the message's conversation, and no step changes the sender or the
\* conversation of a message
C33_SenderIsParticipant ==
    /\ [](\A m \in DOMAIN messages :
             /\ messages[m].conversation \in DOMAIN conversations
             /\ \/ conversations[messages[m].conversation].buyer
                       = messages[m].sender
                \/ conversations[messages[m].conversation].seller_user
                       = messages[m].sender)
    /\ [][\A m \in DOMAIN messages :
             /\ m \in DOMAIN messages'
             /\ messages'[m].sender = messages[m].sender
             /\ messages'[m].conversation = messages[m].conversation]_vars

\* an update whose body asked for another conversation and another sender
\* has been written, and user 3, who has been refused a message in
\* conversation 1, is the sender of none there
C33_Witness ==
    /\ last.op = "perform_update"
    /\ messages[last.msg].text = "t2"
    /\ messages[last.msg].conversation = 1
    /\ messages[last.msg].sender \in {1, 2}
    /\ \E m \in DOMAIN messages : messages[m].conversation = 2

\* C34: an existing message is changed only by mark-one-read or mark-all-seen
\* of the participant who did not send it: no step changes its text or
\* removes it, and no request of its sender changes its status
C34_OnlyOtherParticipantMutates ==
    [][\A m \in DOMAIN messages :
          /\ m \in DOMAIN messages'
          /\ messages'[m].text = messages[m].text
          /\ messages'[m] # messages[m] =>
                /\ last'.op \in {"mark_read", "mark_seen"}
                /\ last'.user # messages[m].sender]_vars

\* C35: a step that changes a user's last_read_at in a conversation leaves
\* no unread message of the other participant in that conversation
C35_ReadBumpClearsBacklog ==
    [][\A key \in DOMAIN states :
          states'[key].last_read_at # states[key].last_read_at =>
             \A m \in DOMAIN messages' :
                (/\ messages'[m].conversation = key[1]
                 /\ messages'[m].sender # key[2]) => messages'[m].is_read]_vars

\* C36: a mark-one-read answered 200 to a user who did not send the message
\* sets an unread message to read with is_read true, sets the caller's
\* last_seen_at and last_read_at to the time of the request and changes no
\* other message; on a message already read it changes no message and no
\* participant state
C36_MarkReadEffect ==
    [][(/\ Did("mark_read")
        /\ last'.code = 200
        /\ last'.user # messages[last'.msg].sender) =>
          LET pk == last'.msg
              key == <<messages[pk].conversation, last'.user>>
          IN IF messages[pk].is_read
             THEN /\ messages' = messages
                  /\ states' = states
             ELSE /\ messages'[pk] = [messages[pk] EXCEPT
                                        !.is_read = TRUE,
                                        !.status = STATUS_READ]
                  /\ \A m \in DOMAIN messages \ {pk} :
                        messages'[m] = messages[m]
                  /\ DOMAIN messages' = DOMAIN messages
                  /\ states'[key].last_seen_at = now
                  /\ states'[key].last_read_at = now]_vars

\* at a time after the start user 2 has marked read the second message of
\* user 1, and the first is still unread
C36_Witness ==
    /\ last.op = "mark_read" /\ last.code = 200 /\ last.user = 2
    /\ last.msg = 2
    /\ now > 0
    /\ Len(messages) = 2
    /\ messages[2].sender = 1 /\ messages[2].is_read
    /\ messages[1].sender = 1 /\ ~messages[1].is_read
    /\ states[<<1, 2>>].last_read_at = now

\* C37: a message create that stores a message leaves the sender's
\* participant state with is_typing false and last_seen_at and last_read_at
\* at the time of the request, and changes no other participant state and
\* neither status nor is_read of a message that existed before
C37_CreateFrame ==
    [][(/\ Did("create")
        /\ Len(messages') = Len(messages) + 1) =>
          LET key == <<last'.conv, last'.user>>
          IN /\ ~states'[key].is_typing
             /\ states'[key].last_seen_at = now
             /\ states'[key].last_read_at = now
             /\ \A k \in DOMAIN states \ {key} : states'[k] = states[k]
             /\ \A m \in DOMAIN messages :
                   /\ messages'[m].status = messages[m].status
                   /\ messages'[m].is_read = messages[m].is_read]_vars

\* user 1 has sent a second message after the clock advanced, while user 2
\* is typing and the first message, of user 2, is read
C37_Witness ==
    /\ last.op = "create" /\ last.user = 1 /\ last.msg = 2
    /\ Len(messages) = 2
    /\ now > 0
    /\ messages[1].sender = 2 /\ messages[1].is_read
    /\ states[<<1, 2>>].is_typing
    /\ ~states[<<1, 1>>].is_typing
    /\ states[<<1, 1>>].last_read_at = now

\* C38: a typing event of a connection, a typing request answered 200 and
\* the close hook change no message and no participant state but the acting
\* user's, and of that one neither last_seen_at nor last_read_at; the opening
\* of a connection and a mark-seen request change no last_typing_at
C38_TypingFrame ==
    [][/\ ((\/ Did("ws_typing")
            \/ Did("typing") /\ last'.code = 200
            \/ Did("disconnect")) =>
              /\ messages' = messages
              /\ \A k \in DOMAIN states :
                    /\ k # <<last'.conv, last'.user>> =>
                          states'[k] = states[k]
                    /\ states'[k].last_seen_at = states[k].last_seen_at
                    /\ states'[k].last_read_at = states[k].last_read_at)
       /\ ((Did("connect") \/ Did("mark_seen")) =>
              \A k \in DOMAIN states :
                 states'[k].last_typing_at = states[k].last_typing_at)]_vars

\* a connection of user 2 closed while user 2 was typing, later than the
\* time user 2 last saw conversation 1, where a message of user 1 is unread
C38_Witness ==
    /\ last.op = "disconnect" /\ last.user = 2 /\ last.flag
    /\ ~states[<<1, 2>>].is_typing
    /\ states[<<1, 2>>].last_typing_at = now
    /\ states[<<1, 2>>].last_seen_at >= 0
    /\ states[<<1, 2>>].last_seen_at < now
    /\ states[<<1, 2>>].last_read_at < now
    /\ \E m \in DOMAIN messages : ~messages[m].is_read

\* C39: the buyer of every conversation is another user than the owner of
\* its seller, so a conversation has two distinct participants, and a
\* conversation create refused with 400 leaves conversations, participant
\* states and creates in progress as they were
C39_TwoDistinctParticipants ==
    /\ [](\A c \in DOMAIN conversations :
             /\ conversations[c].buyer # conversations[c].seller_user
             /\ conversations[c].seller_user
                   = SellerProfiles[conversations[c].seller]
             /\ Cardinality({u \in Users :
                    is_participant(conversations[c], u)}) = 2)
    /\ [][(Did("conversation_create") /\ last'.code = 400) =>
             /\ conversations' = conversations
             /\ states' = states
             /\ opening' = opening]_vars

\* a create towards the caller's own seller has been refused after other
\* users' creates have added conversations
C39_Witness ==
    /\ last = Refused("conversation_create", 400)
    /\ Cardinality(DOMAIN conversations) > Cardinality(ConvIds)
    /\ opening = {}
====
